---- MODULE Spec2Model ----
(***************************************************************************)
(* Model of the bounded single-producer/single-consumer channel of         *)
(* core/src/lib/channel.h: the shared data<T>, the producer endpoint       *)
(* in<T> and the consumer endpoint out<T>.                                 *)
(*                                                                         *)
(* Granularity.  Everything a thread does while it holds data::mutex is    *)
(* one step; the accesses the code makes WITHOUT the mutex (the fast-path  *)
(* copy into / move out of storage before the lock, and the notify_one     *)
(* calls issued after the lock's scope has ended) are steps of their own.  *)
(* cv.wait(lock, pred) is: with the mutex held evaluate pred; if it is     *)
(* false release the mutex and park (one atomic step, as the standard      *)
(* guarantees); a parked thread is resumed by notify_one or spuriously and *)
(* then evaluates pred again with the mutex held.                          *)
(***************************************************************************)
EXTENDS Integers, Sequences, FiniteSets, TLC

\* ---- bounds of the model ----
MaxCapacity == 2      \* capacities requested from CreateBufferedChannel: 0..MaxCapacity
MaxPuts == 3          \* number of put calls that may succeed in one behaviour
MaxValue == 2         \* the values handed to put are 1..MaxValue

Values == 1..MaxValue
\* T{}: a default-constructed slot, and what std::move leaves behind
Empty == 0

VARIABLES
    \* data<T>
    capacity, size, storage, in_alive, out_alive,
    \* in<T> and the producer thread
    write_pos, in_old_size, in_closed, ppc, val, took_fast_path, put_kind, put_ret,
    \* out<T> and the consumer thread
    read_pos, out_old_size, out_closed, cpc, result, something_changed,
    \* history: the values whose put returned true, the values returned by get*
    sent, received,
    \* the capacity CreateBufferedChannel was called with
    requested

data_vars == <<capacity, size, storage, in_alive, out_alive>>
in_vars == <<write_pos, in_old_size, in_closed, ppc, val, took_fast_path, put_kind, put_ret>>
out_vars == <<read_pos, out_old_size, out_closed, cpc, result, something_changed>>
\* what no channel operation assigns
chan_vars == <<data_vars, in_vars, out_vars, sent, received, requested>>

\* ---------------------------------------------------------------------------
\* helpers

wrapping_inc_norewind(num, max) ==
    IF num + 1 = max THEN 0 ELSE num

wrapping_inc(num, max) ==
    LET result_ == num + 1
    IN  IF result_ = max THEN 0 ELSE result_

\* data(capacity): nobody is alive until an endpoint is constructed on it
data_ctor(cap) ==
    [capacity |-> cap, size |-> 0, in_alive |-> FALSE, out_alive |-> FALSE]

\* in() / out(): the default member initialisers; shared is "shared != nullptr"
endpoint_default ==
    [shared |-> FALSE, pos |-> 0, old_size |-> 0, capacity |-> 0, closed |-> TRUE]

\* in(shared) / out(shared): the endpoint; its alive flag is set by the caller
endpoint_ctor(d) ==
    [shared |-> TRUE, pos |-> 0, old_size |-> 0, capacity |-> d.capacity,
     closed |-> FALSE]

\* a move assignment that copies and leaves its source as it was
endpoint_move_copy(this, moved) ==
    [this |-> moved, moved |-> moved]

\* operator=(in&&) / operator=(out&&): every member is swapped
endpoint_move_assign(this, moved) ==
    [this |-> moved, moved |-> this]

\* in(in&&) / out(out&&): default-construct, then move-assign
endpoint_move_ctor(moved) ==
    endpoint_move_assign(endpoint_default, moved)

\* ~in / ~out followed by close(): the peer-visible alive flag afterwards
endpoint_dtor(e, alive) ==
    IF e.shared /\ ~e.closed THEN FALSE ELSE alive

\* the shared data and the two endpoints CreateBufferedChannel returns: the
\* locals in and out are moved into the pair and destroyed, out before in
CreateBufferedChannel(req) ==
    LET cap == IF req = 0 THEN 1 ELSE req
        d0 == data_ctor(cap)
        in_ == endpoint_ctor(d0)
        d1 == [d0 EXCEPT !.in_alive = TRUE]
        out_ == endpoint_ctor(d1)
        d2 == [d1 EXCEPT !.out_alive = TRUE]
        first == endpoint_move_ctor(in_)
        second == endpoint_move_ctor(out_)
        d3 == [d2 EXCEPT !.out_alive = endpoint_dtor(second.moved, @)]
        d4 == [d3 EXCEPT !.in_alive = endpoint_dtor(first.moved, @)]
    IN  [data |-> d4, in |-> first.this, out |-> second.this]

\* cv.notify_one() seen from the thread it may resume: a parked thread goes
\* back to evaluating its wait predicate, any other thread is unaffected
notify_one(pc) ==
    CASE pc = "put_parked" -> "put_wait"
      [] pc = "wte_parked" -> "wte_wait"
      [] pc = "get_parked" -> "get_wait"
      [] pc = "getall_parked" -> "getall_wait"
      [] OTHER -> pc

Parked == {"put_parked", "wte_parked", "get_parked", "getall_parked"}

\* ---------------------------------------------------------------------------
\* dedup::util: raii_fd and file_based_vector<T> over one open file
\*
\* std::size_t is modelled as 0..Word-1 with wrapping arithmetic, off_t and
\* ssize_t as its signed reading: a size_t of HalfWord or more is a negative
\* off_t.  The file is a sequence of elements of ElemSize bytes; every offset
\* the vector seeks to is a multiple of ElemSize.

\* sizeof(T)
ElemSize == 2
\* the width w of std::size_t, off_t and ssize_t in bits
WordBits == 4
\* the largest count handed to write and write_at, and the largest small
\* start and count handed to the other operations
MaxCount == 2
\* the size in bytes beyond which the file system refuses to grow the file
MaxFileLen == 6
\* capacity_chunk_size handed to the constructor: 1..MaxChunk
MaxChunk == 2
\* size in bytes of the file handed to the constructor: 0..MaxInitLen
MaxInitLen == 3
\* used handed to the constructor: 0..MaxInitUsed
MaxInitUsed == 1

Word == 2 ^ WordBits
HalfWord == Word \div 2
\* the largest off_t, which is PTRDIFF_MAX
OffMax == HalfWord - 1
\* the arguments tried for start and count: small ones and the largest
Sizes == (0..MaxCount) \cup {Word - 1}
\* the elements of the arrays handed to write and write_at are 1 and 2
Elements == {1, 2}
\* the arrays of count elements tried: 1, 2, 1, ... and 2, 1, 2, ...
Arrays(count) == {[j \in 1..count |-> 1 + ((v + j) % 2)] : v \in Elements}

VARIABLES
    \* file_based_vector<T>: used, capacity, iter, capacity_chunk_size, error,
    \* and file, the raii_fd: fd, error
    vec,
    \* the open file behind file.fd: len and pos in bytes, data in elements
    disk,
    \* history: the element last handed to write or write_at for one index
    written,
    \* the call that returned last, the vector and the file as the call found
    \* them, what it returned, and where the caller is
    vcall, before, vret, vpc

vec_vars == <<vec, disk, written, vcall, before, vret, vpc>>

\* raii_fd objects on their own: the places an object can live in, and the
\* number of successful ::open calls
MaxObjects == 2
MaxOpens == 2

Slots == 1..MaxObjects
\* the descriptors ::open hands out; every successful open is told apart by
\* its number
FdNums == 3..(2 + MaxOpens)

VARIABLES
    \* the raii_fd in every slot (fd, flags, mode, error) and the slots whose
    \* object is constructed and not yet destroyed
    fds, alive,
    \* the kernel: per descriptor "unused", "open" or "closed", and the number
    \* of ::close calls made on it
    kernel, closes,
    \* history: the slots whose object saw an operation of its own fail, and
    \* whether a move assignment met two objects that both held a descriptor
    failed, moved

fd_vars == <<fds, alive, kernel, closes, failed, moved>>

\* std::nullopt, nullptr and false
Null == [null |-> TRUE, value |-> <<>>]
\* an optional holding n
Some(n) == [null |-> FALSE, value |-> <<n>>]
\* a non-null array
Array(a) == [null |-> FALSE, value |-> a]
\* a bool
Bool(b) == [null |-> ~b, value |-> <<>>]

Max(a, b) == IF a > b THEN a ELSE b

\* ::lseek(fd, where, SEEK_SET): a negative offset is EINVAL
lseek(d, where, fails) ==
    IF fails \/ where > OffMax
    THEN [res |-> -1, d |-> d]
    ELSE [res |-> where, d |-> [d EXCEPT !.pos = where]]

\* ::ftruncate(fd, length): a negative length is EINVAL, one past the limit
\* of the file system EFBIG; the file is cut or extended with zero bytes, the
\* position is kept
ftruncate(d, length, fails) ==
    IF fails \/ length > OffMax \/ length > MaxFileLen
    THEN [res |-> -1, d |-> d]
    ELSE [res |-> 0,
          d |-> [d EXCEPT !.len = length,
                          !.data = [i \in 1..(length \div ElemSize) |->
                                      IF i <= Len(d.data) THEN d.data[i] ELSE Empty]]]

\* ::write(fd, data, size) at the position: all of it or, past the largest
\* offset, past the limit of the file system or on an I/O error, -1; a gap
\* before the position reads as zeros
os_write(d, data, nbytes, fails) ==
    IF fails \/ d.pos + nbytes > OffMax \/ Max(d.len, d.pos + nbytes) > MaxFileLen
    THEN [res |-> -1, d |-> d]
    ELSE LET first == d.pos \div ElemSize
             count == nbytes \div ElemSize
             length == Max(d.len, d.pos + nbytes)
         IN  [res |-> nbytes,
              d |-> [len |-> length,
                     pos |-> d.pos + nbytes,
                     data |-> [i \in 1..(length \div ElemSize) |->
                                 IF i > first /\ i <= first + count THEN data[i - first]
                                 ELSE IF i <= Len(d.data) THEN d.data[i]
                                 ELSE Empty]]]

\* ::read(fd, data, size) at the position: what the file holds up to its end
os_read(d, nbytes, fails) ==
    IF fails
    THEN [res |-> -1, data |-> <<>>, d |-> d]
    ELSE LET got == IF d.pos >= d.len THEN 0
                    ELSE IF d.pos + nbytes > d.len THEN d.len - d.pos ELSE nbytes
             first == d.pos \div ElemSize
         IN  [res |-> got,
              data |-> [i \in 1..(got \div ElemSize) |-> d.data[first + i]],
              d |-> [d EXCEPT !.pos = d.pos + got]]

\* ---------------------------------------------------------------------------
\* raii_fd; a state s is the vector s.v (with s.v.file the raii_fd) and the
\* open file s.d

\* raii_fd::is_ok
fd_is_ok(file) ==
    ~(file.fd < 0 \/ file.error)

\* a seek that reports success and leaves the position alone
fd_seek_skipped(s, where, fails) ==
    [ok |-> ~fails /\ where <= OffMax, s |-> s]

\* raii_fd::seek
fd_seek(s, where, fails) ==
    LET r == lseek(s.d, where, fails)
    IN  [ok |-> r.res >= 0 /\ r.res = where, s |-> [s EXCEPT !.d = r.d]]

\* raii_fd::resize
fd_resize(s, new_size, fails) ==
    LET r == ftruncate(s.d, new_size, fails)
    IN  [ok |-> r.res = 0, s |-> [s EXCEPT !.d = r.d]]

\* raii_fd::write
fd_write(s, data, nbytes, fails) ==
    LET r == os_write(s.d, data, nbytes, fails)
    IN  IF r.res < 0 \/ r.res # nbytes
        THEN [ok |-> FALSE, s |-> [s EXCEPT !.d = r.d, !.v.file.error = TRUE]]
        ELSE [ok |-> TRUE, s |-> [s EXCEPT !.d = r.d]]

\* raii_fd::read
fd_read(s, nbytes, fails) ==
    LET r == os_read(s.d, nbytes, fails)
    IN  IF r.res < 0 \/ r.res # nbytes
        THEN [ok |-> FALSE, data |-> <<>>,
              s |-> [s EXCEPT !.d = r.d, !.v.file.error = TRUE]]
        ELSE [ok |-> TRUE, data |-> r.data, s |-> [s EXCEPT !.d = r.d]]

\* raii_fd::flush
fd_flush(s, fails) ==
    [ok |-> ~fails, s |-> s]

\* raii_fd::size_then_reset
size_then_reset(s, fails) ==
    IF fails
    THEN [ok |-> FALSE, nbytes |-> 0, s |-> [s EXCEPT !.v.file.error = TRUE]]
    ELSE [ok |-> TRUE, nbytes |-> s.d.len, s |-> [s EXCEPT !.d.pos = 0]]

\* raii_fd() = default
raii_fd_default == [fd |-> -1, flags |-> 0, mode |-> 0, error |-> FALSE]

\* raii_fd(path, flags, mode): res is what ::open returned
raii_fd_open(res, flags, mode) ==
    [fd |-> res, flags |-> flags, mode |-> mode, error |-> FALSE]

\* an assignment that copies fd, flags and mode and leaves the source alone
raii_fd_move_copy(this, move_from) ==
    [this |-> [this EXCEPT !.fd = move_from.fd,
                           !.flags = move_from.flags,
                           !.mode = move_from.mode],
     move_from |-> move_from]

\* raii_fd::operator=(raii_fd&&)
raii_fd_move_assign(this, move_from) ==
    [this |-> [this EXCEPT !.fd = move_from.fd,
                           !.flags = move_from.flags,
                           !.mode = move_from.mode],
     move_from |-> [move_from EXCEPT !.fd = this.fd,
                                     !.flags = this.flags,
                                     !.mode = this.mode]]

\* raii_fd(raii_fd&&)
raii_fd_move_ctor(move_from) ==
    raii_fd_move_assign(raii_fd_default, move_from)

\* ---------------------------------------------------------------------------
\* file_based_vector<T>; every operation yields the state it leaves, what it
\* returns, and whether it left by an exception ("throw") or a failed ASSERT
\* ("abort"); io names the step that fails for a reason outside the program:
\* "alloc" (new T[count]), "resize" (ftruncate), "seek_start" (the first
\* lseek), "transfer" (read or write), "seek_iter" (the lseek back to the
\* cursor), "fsync"; "none" if none does

Returns(s, ret) == [s |-> s, ret |-> ret, exc |-> "none"]

SetError(s) == [s EXCEPT !.v.error = TRUE]

\* size_t arithmetic
Add(a, b) == (a + b) % Word
Mul(a, b) == (a * b) % Word

\* file_based_vector(file, used, capacity_chunk_size) on a file of len bytes;
\* opened tells whether ::open gave a descriptor
file_based_vector(opened, len, used_, capacity_chunk_size_, io) ==
    LET file_ == [fd |-> IF opened THEN 3 ELSE -1, error |-> FALSE]
        s0 == [v |-> [used |-> used_, capacity |-> 0, iter |-> 0,
                      capacity_chunk_size |-> capacity_chunk_size_,
                      file |-> file_,
                      error |-> ~fd_is_ok(file_)],
               d |-> [len |-> len, pos |-> 0,
                      data |-> [i \in 1..(len \div ElemSize) |-> Empty]]]
        sz == size_then_reset(s0, io = "seek_start")
        s1 == [sz.s EXCEPT !.v.capacity = sz.nbytes \div ElemSize]
    IN  IF s0.v.error THEN s0
        ELSE IF ~sz.ok THEN SetError(sz.s)
        ELSE IF s1.v.used > s1.v.capacity THEN SetError(s1)
        ELSE s1

\* reserve_at that grows the file to the requested end and no further
reserve_at_exact(s, at, count, io) ==
    LET v == s.v
        end == Add(at, count)
        rs == fd_resize(s, Mul(end, ElemSize), io = "resize")
    IN  IF v.error THEN Returns(s, Null)
        ELSE IF end < at THEN Returns(s, Null)
        ELSE IF at > v.used THEN Returns(SetError(s), Null)
        ELSE IF end > v.capacity
        THEN IF ~rs.ok THEN Returns(SetError(rs.s), Null)
             ELSE Returns([rs.s EXCEPT !.v.capacity = end,
                                       !.v.used = Max(v.used, end)],
                          Some(at))
        ELSE Returns([s EXCEPT !.v.used = Max(v.used, end)], Some(at))

\* file_based_vector::reserve_at
reserve_at(s, at, count, io) ==
    LET v == s.v
        end == Add(at, count)
        delta == end - v.capacity
        num_new_items == Mul(Add(delta, v.capacity_chunk_size - 1)
                                 \div v.capacity_chunk_size,
                             v.capacity_chunk_size)
        new_cap == Add(v.capacity, num_new_items)
        rs == fd_resize(s, Mul(new_cap, ElemSize), io = "resize")
    IN  IF v.error THEN Returns(s, Null)
        ELSE IF end < at THEN Returns(s, Null)
        ELSE IF at > v.used THEN Returns(SetError(s), Null)
        ELSE IF end > v.capacity
        THEN IF ~(Add(num_new_items, v.capacity) >= end)
             THEN [s |-> s, ret |-> Null, exc |-> "abort"]
             ELSE IF new_cap < end THEN Returns(s, Null)
             ELSE IF ~rs.ok THEN Returns(SetError(rs.s), Null)
             ELSE Returns([rs.s EXCEPT !.v.capacity = new_cap,
                                       !.v.used = Max(v.used, end)],
                          Some(at))
        ELSE Returns([s EXCEPT !.v.used = Max(v.used, end)], Some(at))

\* reserve that reserves from the cursor on, as write does
reserve_at_cursor(s, count, io) ==
    reserve_at(s, s.v.iter, count, io)

\* file_based_vector::reserve
reserve(s, count, io) ==
    LET start == reserve_at(s, s.v.used, count, io)
    IN  IF start.exc = "none" /\ ~start.ret.null
        THEN [start EXCEPT !.s.v.iter = start.s.v.used]
        ELSE start

\* write_at that reserves the range instead of writing it
write_at_reserving(s, start, arr, count, io) ==
    reserve_at(s, start, count, io)

\* file_based_vector::write_at
write_at(s, start, arr, count, io) ==
    LET sk1 == fd_seek(s, Mul(ElemSize, start), io = "seek_start")
        wr == fd_write(sk1.s, arr, Mul(count, ElemSize), io = "transfer")
        sk2 == fd_seek(wr.s, Mul(ElemSize, s.v.iter), io = "seek_iter")
    IN  IF s.v.error THEN Returns(s, Null)
        ELSE IF start > s.v.used THEN Returns(s, Null)
        ELSE IF ~sk1.ok THEN Returns(SetError(sk1.s), Null)
        ELSE IF ~wr.ok THEN Returns(SetError(wr.s), Null)
        ELSE IF ~sk2.ok THEN Returns(SetError(sk2.s), Null)
        ELSE Returns(sk2.s, Some(start))

\* write that overwrites at the cursor without reserving or advancing
write_in_place(s, arr, count, io) ==
    write_at(s, s.v.iter, arr, count, io)

\* file_based_vector::write
write(s, arr, count, io) ==
    LET start == reserve_at(s, s.v.iter, count, io)
        old_iter == s.v.iter
        s1 == [start.s EXCEPT !.v.iter = Add(old_iter, count)]
        res == write_at(s1, old_iter, arr, count, io)
    IN  IF start.exc # "none" \/ start.ret.null THEN start
        ELSE IF res.ret.null THEN [res EXCEPT !.s.v.iter = old_iter]
        ELSE res

\* file_based_vector::read_at; new T[count] throws when count elements do not
\* fit the address space or the allocation fails
read_at(s, start, count, io) ==
    LET sk1 == fd_seek(s, Mul(ElemSize, start), io = "seek_start")
        rd == fd_read(sk1.s, Mul(count, ElemSize), io = "transfer")
        sk2 == fd_seek(rd.s, Mul(ElemSize, s.v.iter), io = "seek_iter")
    IN  IF s.v.error THEN Returns(s, Null)
        ELSE IF Add(start, count) > s.v.used THEN Returns(s, Null)
        ELSE IF count * ElemSize > OffMax \/ io = "alloc"
        THEN [s |-> s, ret |-> Null, exc |-> "throw"]
        ELSE IF ~sk1.ok THEN Returns(SetError(sk1.s), Null)
        ELSE IF ~rd.ok THEN Returns(SetError(rd.s), Null)
        ELSE IF ~sk2.ok THEN Returns(SetError(sk2.s), Null)
        ELSE Returns(sk2.s, Array(rd.data))

\* file_based_vector::read
read(s, count, io) ==
    LET old_iter == s.v.iter
        s1 == [s EXCEPT !.v.iter = Add(old_iter, count)]
        res == read_at(s1, old_iter, count, io)
    IN  IF s.v.error THEN Returns(s, Null)
        ELSE IF res.exc = "none" /\ res.ret.null
        THEN [res EXCEPT !.s.v.iter = old_iter]
        ELSE res

\* file_based_vector::peek
peek(s, count, io) ==
    IF s.v.error THEN Returns(s, Null)
    ELSE read_at(s, s.v.iter, count, io)

\* file_based_vector::move_to
move_to(s, start, io) ==
    LET s1 == [s EXCEPT !.v.iter = start]
        sk == fd_seek(s1, Mul(start, ElemSize), io = "seek_start")
    IN  IF s.v.error THEN Returns(s, Bool(FALSE))
        ELSE IF start > s.v.used THEN Returns(s, Bool(FALSE))
        ELSE IF s.v.iter = start THEN Returns(s, Bool(TRUE))
        ELSE IF ~sk.ok THEN Returns(SetError(sk.s), Bool(FALSE))
        ELSE Returns(sk.s, Bool(TRUE))

\* flush that forwards to the raii_fd whatever the error bit says
flush_unchecked(s, io) ==
    Returns(s, Bool(fd_flush(s, io = "fsync").ok))

\* file_based_vector::flush
flush(s, io) ==
    IF s.v.error THEN Returns(s, Bool(FALSE))
    ELSE Returns(s, Bool(fd_flush(s, io = "fsync").ok))

\* ---------------------------------------------------------------------------
\* the thread that owns the vector: one call at a time

\* the vector and its file before the call
S == [v |-> vec, d |-> disk]

Call(op, start, count, arr) ==
    [op |-> op, start |-> start, count |-> count, arr |-> arr]

NoCall == Call("none", 0, 0, <<>>)

\* the file ::open yields: one element long, position 0
NewFile == [len |-> ElemSize, pos |-> 0, data |-> <<Empty>>]

\* ---------------------------------------------------------------------------
\* the sidecar of a volume and its codec

\* the rows of unfinished records a sidecar holds at most
MaxRows == 2

VARIABLES
    \* dedup::volume: config, unfinished_records (a set of key/loc pairs),
    \* error
    volume,
    \* the file behind configfile.fd: position and content
    sidecar,
    \* the call that ended last, the volume and the sidecar as the call found
    \* them, what it returned, the system calls it made, where the caller is
    volcall, volbefore, volret, volcalls, volpc,
    \* history: the unfinished_records the sidecar was last written from, and
    \* whether that write went through
    saved

vol_vars == <<volume, sidecar, volcall, volbefore, volret, volcalls, volpc, saved>>

\* my_general_info: the numbers stand for sizeof(bareos_block_header),
\* sizeof(bareos_record_header), sizeof(block_header), sizeof(record_header)
my_general_info ==
    [block_header_size |-> 24,
     record_header_size |-> 12,
     dedup_block_header_size |-> 3,
     dedup_record_header_size |-> 5]

\* the concatenation of the first n sequences of seqs
RECURSIVE Concat(_, _)
Concat(seqs, n) ==
    IF n = 0 THEN <<>> ELSE Concat(seqs, n - 1) \o seqs[n]

\* a length-prefixed string
string_bytes(str) == <<Len(str)>> \o str

\* a section (begin, end, path) or (index, blocksize, path, end), or a row
item_bytes(kind, item) ==
    CASE kind = "block" -> <<item.begin, item.end>> \o string_bytes(item.path)
      [] kind = "data" -> <<item.index, item.blocksize>> \o string_bytes(item.path)
                          \o <<item.end>>
      [] OTHER -> <<item.VolSessionId, item.VolSessionTime, item.FileIndex, item.Stream,
                    item.DataIdx, item.file_offset, item.size>>

\* a length-prefixed list; bytes_of[i] is the encoding of item i
list_bytes(bytes_of) == <<Len(bytes_of)>> \o Concat(bytes_of, Len(bytes_of))

\* config::to_bytes: general info with the version tag, then the block,
\* record and data sections and the unfinished rows
to_bytes(info, datasections, recordsections, blocksections, unfinished) ==
    <<info.block_header_size, info.record_header_size,
      info.dedup_block_header_size, info.dedup_record_header_size, 1>>
    \o list_bytes([i \in 1..Len(blocksections) |-> item_bytes("block", blocksections[i])])
    \o list_bytes([i \in 1..Len(recordsections) |-> item_bytes("block", recordsections[i])])
    \o list_bytes([i \in 1..Len(datasections) |-> item_bytes("data", datasections[i])])
    \o list_bytes([i \in 1..Len(unfinished) |-> item_bytes("row", unfinished[i])])

\* a parser is at position pos of bytes (1 is the first) unless it failed
ParseFail == [ok |-> FALSE, pos |-> 0, value |-> <<>>]

\* n fixed-width integers
parse_ints(bytes, pos, n) ==
    IF pos + n - 1 > Len(bytes) THEN ParseFail
    ELSE [ok |-> TRUE, pos |-> pos + n, value |-> SubSeq(bytes, pos, pos + n - 1)]

\* a length-prefixed string
parse_string(bytes, pos) ==
    LET n == parse_ints(bytes, pos, 1)
    IN  IF ~n.ok THEN ParseFail ELSE parse_ints(bytes, n.pos, n.value[1])

\* the integers an item starts with and ends with, around its path if it
\* has one: (begin, end, path), (index, blocksize, path, end), and a row
ItemShape(kind) ==
    CASE kind = "block" -> [before |-> 2, path |-> TRUE, after |-> 0]
      [] kind = "data" -> [before |-> 2, path |-> TRUE, after |-> 1]
      [] OTHER -> [before |-> 7, path |-> FALSE, after |-> 0]

\* the item of one kind made of the parsed fields
item_of(kind, f) ==
    CASE kind = "block" -> [begin |-> f[1], end |-> f[2], path |-> f[3]]
      [] kind = "data" -> [index |-> f[1], blocksize |-> f[2], path |-> f[3], end |-> f[4]]
      [] OTHER -> [VolSessionId |-> f[1], VolSessionTime |-> f[2], FileIndex |-> f[3],
                   Stream |-> f[4], DataIdx |-> f[5], file_offset |-> f[6], size |-> f[7]]

parse_item(kind, bytes, pos) ==
    LET head == parse_ints(bytes, pos, ItemShape(kind).before)
        path == IF ~head.ok THEN ParseFail
                ELSE IF ~ItemShape(kind).path
                THEN [ok |-> TRUE, pos |-> head.pos, value |-> <<>>]
                ELSE [parse_string(bytes, head.pos) EXCEPT !.value = <<@>>]
        tail == IF ~path.ok THEN ParseFail
                ELSE parse_ints(bytes, path.pos, ItemShape(kind).after)
    IN  IF ~tail.ok THEN ParseFail
        ELSE [ok |-> TRUE, pos |-> tail.pos,
              value |-> item_of(kind, head.value \o path.value \o tail.value)]

\* n more items of one kind after the items parsed so far
RECURSIVE parse_items(_, _, _, _)
parse_items(kind, bytes, items, n) ==
    IF ~items.ok \/ n = 0 THEN items
    ELSE LET item == parse_item(kind, bytes, items.pos)
         IN  parse_items(kind, bytes,
                         IF ~item.ok THEN ParseFail
                         ELSE [ok |-> TRUE, pos |-> item.pos,
                               value |-> Append(items.value, item.value)],
                         n - 1)

\* a length-prefixed list of items of one kind
parse_list(kind, bytes, pos) ==
    LET n == parse_ints(bytes, pos, 1)
    IN  IF ~n.ok THEN ParseFail
        ELSE parse_items(kind, bytes, [ok |-> TRUE, pos |-> n.pos, value |-> <<>>],
                         n.value[1])

\* the general info with the version tag, made of five parsed integers
parse_info(info) ==
    IF ~info.ok \/ info.value[5] # 1 THEN ParseFail
    ELSE [ok |-> TRUE, pos |-> info.pos,
          value |-> [info |-> [block_header_size |-> info.value[1],
                               record_header_size |-> info.value[2],
                               dedup_block_header_size |-> info.value[3],
                               dedup_record_header_size |-> info.value[4]],
                     blockfiles |-> <<>>, recordfiles |-> <<>>,
                     datafiles |-> <<>>, unfinished |-> <<>>]]

\* the config parsed so far with the list parsed next as one of its fields
parse_section(field, kind, bytes, config) ==
    IF ~config.ok THEN config
    ELSE LET list == parse_list(kind, bytes, config.pos)
         IN  IF ~list.ok THEN ParseFail
             ELSE [ok |-> TRUE, pos |-> list.pos,
                   value |-> [config.value EXCEPT ![field] = list.value]]

\* the parsed config if the bytes end where it ends
parse_end(bytes, config) ==
    IF ~config.ok \/ config.pos # Len(bytes) + 1 THEN Null
    ELSE [null |-> FALSE, value |-> config.value]

\* config::from_bytes: the parsed config, or nothing if the bytes are short,
\* carry another version tag or do not end with the last row
from_bytes(bytes) ==
    parse_end(bytes,
        parse_section("unfinished", "row", bytes,
            parse_section("datafiles", "data", bytes,
                parse_section("recordfiles", "block", bytes,
                    parse_section("blockfiles", "block", bytes,
                        parse_info(parse_ints(bytes, 1, 5)))))))

\* ---------------------------------------------------------------------------
\* the system calls on the sidecar; f is the open file: pos and bytes

\* ::lseek(fd, 0, SEEK_END)
sys_lseek_end(f, fails) ==
    IF fails THEN [res |-> -1, f |-> f]
    ELSE [res |-> Len(f.bytes), f |-> [f EXCEPT !.pos = Len(f.bytes)]]

\* ::lseek(fd, 0, SEEK_SET)
sys_lseek_set(f, fails) ==
    IF fails THEN [res |-> -1, f |-> f]
    ELSE [res |-> 0, f |-> [f EXCEPT !.pos = 0]]

\* ::ftruncate(fd, 0); the position is kept
sys_ftruncate(f, fails) ==
    IF fails THEN [res |-> -1, f |-> f]
    ELSE [res |-> 0, f |-> [f EXCEPT !.bytes = <<>>]]

\* ::write(fd, data, size) at the position, which is not past the end: all
\* of it, all but the last byte ("short"), or -1 ("fail")
sys_write(f, data, fault) ==
    IF fault = "fail" THEN [res |-> -1, f |-> f]
    ELSE LET n == IF fault = "short" THEN Len(data) - 1 ELSE Len(data)
         IN  [res |-> n,
              f |-> [pos |-> f.pos + n,
                     bytes |-> SubSeq(f.bytes, 1, f.pos) \o SubSeq(data, 1, n)
                               \o SubSeq(f.bytes, f.pos + n + 1, Len(f.bytes))]]

\* ::read(fd, data, size) at the position: what the file holds up to its
\* end, one byte less ("short"), or -1 ("fail")
sys_read(f, nbytes, fault) ==
    IF fault = "fail" THEN [res |-> -1, bytes |-> <<>>, f |-> f]
    ELSE LET there == IF f.pos >= Len(f.bytes) THEN 0
                      ELSE IF f.pos + nbytes > Len(f.bytes) THEN Len(f.bytes) - f.pos
                      ELSE nbytes
             got == IF fault = "short" /\ there > 0 THEN there - 1 ELSE there
         IN  [res |-> got,
              bytes |-> SubSeq(f.bytes, f.pos + 1, f.pos + got),
              f |-> [f EXCEPT !.pos = f.pos + got]]

\* ---------------------------------------------------------------------------
\* dedup::volume; a state s is the volume s.vol and the sidecar s.f; every
\* operation yields the state it leaves, what it returns, the system calls it
\* made and whether it left by a failed assertion of the library ("abort")

\* a - b in std::size_t
Sub(a, b) == (a + Word - b) % Word

\* the key of an unfinished row
record(VolSessionId, VolSessionTime, FileIndex, Stream) ==
    [VolSessionId |-> VolSessionId, VolSessionTime |-> VolSessionTime,
     FileIndex |-> FileIndex, Stream |-> Stream]

\* write_loc{file_index, current, end}
write_loc(file_index, current, end) ==
    [file_index |-> file_index, current |-> current, end |-> end]

\* a location read as written: the size taken for the end
write_loc_of_size(rec) ==
    write_loc(rec.DataIdx, rec.file_offset, rec.size)

\* the location of a row of the sidecar
write_loc_of(rec) ==
    write_loc(rec.DataIdx, rec.file_offset, Add(rec.file_offset, rec.size))

\* the row written for an entry of unfinished_records
unfinished_of(entry) ==
    [VolSessionId |-> entry.key.VolSessionId,
     VolSessionTime |-> entry.key.VolSessionTime,
     FileIndex |-> entry.key.FileIndex,
     Stream |-> entry.key.Stream,
     DataIdx |-> entry.loc.file_index,
     file_offset |-> entry.loc.current,
     size |-> Sub(entry.loc.end, entry.loc.current)]

\* an emplace that inserts whatever the map holds
emplace_always(map, key, loc) ==
    [inserted |-> TRUE, map |-> map \cup {[key |-> key, loc |-> loc]}]

\* unfinished_records.emplace(key, loc)
emplace(map, key, loc) ==
    IF \E e \in map : e.key = key
    THEN [inserted |-> FALSE, map |-> map]
    ELSE [inserted |-> TRUE, map |-> map \cup {[key |-> key, loc |-> loc]}]

\* the loop of load_config over the rows: the map it leaves, and whether
\* every row was inserted
RECURSIVE insert_unfinished(_, _)
insert_unfinished(map, rows) ==
    IF rows = <<>> THEN [ok |-> TRUE, map |-> map]
    ELSE LET rec == Head(rows)
             r == emplace(map,
                          record(rec.VolSessionId, rec.VolSessionTime,
                                 rec.FileIndex, rec.Stream),
                          write_loc_of(rec))
         IN  IF ~r.inserted THEN [ok |-> FALSE, map |-> r.map]
             ELSE insert_unfinished(r.map, Tail(rows))

\* volume_config(loaded_config): the files of the sidecar
volume_config(loaded) ==
    [blockfiles |-> loaded.blockfiles,
     recordfiles |-> loaded.recordfiles,
     datafiles |-> loaded.datafiles]

\* a volume before its sidecar is loaded
volume_new ==
    [config |-> [blockfiles |-> <<>>, recordfiles |-> <<>>, datafiles |-> <<>>],
     unfinished_records |-> {},
     error |-> FALSE]

\* the checks of load_config on the header sizes, dedup_block_header_size
\* left out
header_sizes_unchecked(info) ==
    /\ info.block_header_size = my_general_info.block_header_size
    /\ info.record_header_size = my_general_info.record_header_size
    /\ info.dedup_record_header_size = my_general_info.dedup_record_header_size

\* the checks of load_config on the header sizes
header_sizes_ok(info) ==
    /\ ~(\/ info.block_header_size # my_general_info.block_header_size
         \/ info.dedup_block_header_size # my_general_info.dedup_block_header_size)
    /\ ~(\/ info.record_header_size # my_general_info.record_header_size
         \/ info.dedup_record_header_size # my_general_info.dedup_record_header_size)

VolReturns(s, ret, calls) == [s |-> s, ret |-> ret, exc |-> "none", calls |-> calls]

\* the first two statements of load_config: the results of the two lseek
\* calls and the file as they leave it
config_bounds(f, io) ==
    [config_end |-> sys_lseek_end(f, io = "seek_end").res,
     config_start |-> sys_lseek_set(sys_lseek_end(f, io = "seek_end").f,
                                    io = "seek_set").res,
     f |-> sys_lseek_set(sys_lseek_end(f, io = "seek_end").f, io = "seek_set").f]

\* load_config from config::from_bytes on
load_parsed(s, loaded_config, calls) ==
    IF loaded_config.null THEN VolReturns(s, Bool(FALSE), calls)
    ELSE IF Len(loaded_config.value.blockfiles) # 1 THEN VolReturns(s, Bool(FALSE), calls)
    ELSE IF Len(loaded_config.value.recordfiles) # 1 THEN VolReturns(s, Bool(FALSE), calls)
    ELSE IF ~header_sizes_ok(loaded_config.value.info) THEN VolReturns(s, Bool(FALSE), calls)
    ELSE LET ins == insert_unfinished(s.vol.unfinished_records,
                                      loaded_config.value.unfinished)
         IN  IF ~ins.ok
             THEN VolReturns([s EXCEPT !.vol.unfinished_records = ins.map],
                             Bool(FALSE), calls)
             ELSE VolReturns([s EXCEPT !.vol.unfinished_records = ins.map,
                                       !.vol.config = volume_config(loaded_config.value)],
                             Bool(TRUE), calls)

\* load_config from the read on: r is what ::read yields
load_read(s, nbytes, r) ==
    IF r.res # nbytes
    THEN VolReturns([s EXCEPT !.f = r.f], Bool(FALSE), <<"lseek", "lseek", "read">>)
    ELSE load_parsed([s EXCEPT !.f = r.f], from_bytes(r.bytes),
                     <<"lseek", "lseek", "read">>)

\* load_config after the two lseek calls
load_sized(s, b, io, front) ==
    IF b.config_start # 0 \/ b.config_start > b.config_end
    THEN VolReturns([s EXCEPT !.f = b.f], Bool(FALSE), <<"lseek", "lseek">>)
    ELSE IF b.config_end - b.config_start = 0 /\ front = "abort"
    THEN [s |-> [s EXCEPT !.f = b.f], ret |-> Null, exc |-> "abort",
          calls |-> <<"lseek", "lseek">>]
    ELSE load_read(s, b.config_end - b.config_start,
                   sys_read(b.f, b.config_end - b.config_start,
                            CASE io = "read" -> "fail"
                              [] io = "short_read" -> "short"
                              [] OTHER -> "none"))

\* volume::load_config; io names the system call that fails: "seek_end",
\* "seek_set", "read" (-1) or "short_read"; front tells what bytes.front()
\* of an empty vector does: "abort" (an asserting library) or "go_on"
load_config(s, io, front) ==
    load_sized(s, config_bounds(s.f, io), io, front)

\* a write_current_config that clears the error flag when all went well
write_current_config_clearing(s, order, io) ==
    LET bytes == to_bytes(my_general_info, s.vol.config.datafiles,
                          s.vol.config.recordfiles, s.vol.config.blockfiles,
                          [i \in 1..Len(order) |-> unfinished_of(order[i])])
        t == sys_ftruncate(s.f, io = "truncate")
        l == sys_lseek_set(t.f, io = "seek")
        w == sys_write(l.f, bytes, "none")
    IN  IF io = "none"
        THEN [s |-> [vol |-> [s.vol EXCEPT !.error = FALSE], f |-> w.f],
              ret |-> Null, exc |-> "none", calls |-> <<"ftruncate", "lseek", "write">>]
        ELSE [s |-> [vol |-> [s.vol EXCEPT !.error = TRUE], f |-> s.f],
              ret |-> Null, exc |-> "none", calls |-> <<"ftruncate">>]

\* volume::write_current_config; order is the order in which the loop meets
\* the entries of unfinished_records; io names the system call that fails:
\* "truncate", "seek", "write" (-1) or "short_write"
write_current_config(s, order, io) ==
    LET blocksections == s.vol.config.blockfiles
        recordsections == s.vol.config.recordfiles
        datasections == s.vol.config.datafiles
        unfinished == [i \in 1..Len(order) |-> unfinished_of(order[i])]
        bytes == to_bytes(my_general_info, datasections, recordsections,
                          blocksections, unfinished)
        t == sys_ftruncate(s.f, io = "truncate")
    IN  IF t.res # 0
        THEN [s |-> [vol |-> [s.vol EXCEPT !.error = TRUE], f |-> t.f],
              ret |-> Null, exc |-> "none", calls |-> <<"ftruncate">>]
        ELSE
        LET l == sys_lseek_set(t.f, io = "seek")
        IN  IF l.res # 0
            THEN [s |-> [vol |-> [s.vol EXCEPT !.error = TRUE], f |-> l.f],
                  ret |-> Null, exc |-> "none", calls |-> <<"ftruncate", "lseek">>]
            ELSE
            LET w == sys_write(l.f, bytes,
                               CASE io = "write" -> "fail"
                                 [] io = "short_write" -> "short"
                                 [] OTHER -> "none")
                calls == <<"ftruncate", "lseek", "write">>
            IN  IF w.res # Len(bytes)
                THEN [s |-> [vol |-> [s.vol EXCEPT !.error = TRUE], f |-> w.f],
                      ret |-> Null, exc |-> "none", calls |-> calls]
                ELSE [s |-> [vol |-> s.vol, f |-> w.f],
                      ret |-> Null, exc |-> "none", calls |-> calls]

\* the orders in which the entries of a map can be met
Orders(map) ==
    {order \in [1..Cardinality(map) -> map] :
         \A i, j \in 1..Cardinality(map) : i # j => order[i] # order[j]}

\* the sidecars a volume is opened on: keys, rows, sections
Keys == {record(1, 1, 1, 1), record(1, 1, 1, 2)}

\* the one data-file of the sidecars: index 0, recorded end 4
DataFiles == <<[index |-> 0, blocksize |-> 1, path |-> <<100>>, end |-> 4]>>

\* (data_idx, file_offset, size): inside the data-file, past its end, in a
\* data-file that is not there, and with offset + size past SIZE_MAX
RowLocs == {<<0, 1, 2>>, <<0, 3, 2>>, <<1, 0, 1>>, <<0, Word - 1, 2>>}

Rows ==
    {[VolSessionId |-> k.VolSessionId, VolSessionTime |-> k.VolSessionTime,
      FileIndex |-> k.FileIndex, Stream |-> k.Stream,
      DataIdx |-> l[1], file_offset |-> l[2], size |-> l[3]] :
         k \in Keys, l \in RowLocs}

RowSeqs(n) == UNION {[1..m -> Rows] : m \in 0..n}

\* n block-file or record-file sections
Sections(n) == [i \in 1..n |-> [begin |-> 0, end |-> 2, path |-> <<97 + i>>]]

\* general infos: the sizes of this binary, and each size off by one
Infos ==
    {my_general_info}
    \cup {[my_general_info EXCEPT ![f] = @ + 1] :
              f \in {"block_header_size", "record_header_size",
                     "dedup_block_header_size", "dedup_record_header_size"}}

\* what the sidecars are written from: every table of rows for the sizes of
\* this binary with one block-file and one record-file, at most one row for
\* the others
SidecarInputs ==
    {c \in [info : Infos, nb : 0..2, nr : 0..2, rows : RowSeqs(MaxRows)] :
         \/ Len(c.rows) <= 1
         \/ (c.info = my_general_info /\ c.nb = 1 /\ c.nr = 1)}

\* the sidecars a volume is opened on: whole, some cut short by a byte, and
\* the empty file
InitSidecars ==
    LET bytes_of(c) == to_bytes(c.info, DataFiles, Sections(c.nr), Sections(c.nb), c.rows)
    IN  {bytes_of(c) : c \in SidecarInputs}
        \cup {SubSeq(bytes_of(c), 1, Len(bytes_of(c)) - 1) :
                  c \in {i \in SidecarInputs : i.info = my_general_info /\ Len(i.rows) = 0}}
        \cup {<<>>}

\* the sidecars another process leaves in place of the one a volume has
\* open: without rows, one of another binary, one with two block-files, one
\* without record-file
OtherSidecars ==
    {to_bytes([my_general_info EXCEPT !.dedup_block_header_size = @ + 1],
              DataFiles, Sections(1), Sections(1), <<>>),
     to_bytes(my_general_info, DataFiles, Sections(1), Sections(2), <<>>),
     to_bytes(my_general_info, DataFiles, Sections(0), Sections(1), <<>>)}

VolS == [vol |-> volume, f |-> sidecar]

VolCall(op, io) == [op |-> op, io |-> io]

\* a volume constructed over one of the sidecars, nothing called yet
VolInit(sidecars) ==
    /\ volume = volume_new
    /\ \E bytes \in sidecars :
           /\ sidecar = [pos |-> 0, bytes |-> bytes]
           /\ volbefore = [vol |-> volume_new, f |-> [pos |-> 0, bytes |-> bytes]]
    /\ volcall = VolCall("none", "none")
    /\ volret = Null
    /\ volcalls = <<>>
    /\ volpc = "running"
    /\ saved = [valid |-> FALSE, map |-> {}, config |-> volume_new.config]


\* the vector as its constructor leaves it, and nothing called yet
VectorInit(opens, lens, useds, chunks, ios, indices) ==
    \E opened \in opens, len \in lens, used_ \in useds, chunk \in chunks, io \in ios :
        LET s == file_based_vector(opened, len, used_, chunk, io)
        IN  /\ vec = s.v
            /\ disk = s.d
            /\ \E i \in indices : written = [index |-> i, value |-> Empty]
            /\ vcall = NoCall
            /\ before = s
            /\ vret = Null
            /\ vpc = "ready"

\* what no channel operation assigns
chan_frame == <<requested, vec_vars, fd_vars, vol_vars>>
\* what no vector operation assigns
vec_frame == <<chan_vars, fd_vars, vol_vars>>
vars == <<chan_vars, vec_vars, fd_vars, vol_vars>>

\* ---------------------------------------------------------------------------
\* construction: data(capacity), in(shared), out(shared)

ChannelInit(requests) ==
    /\ requested \in requests
    /\ LET ch == CreateBufferedChannel(requested)
       IN  /\ capacity = ch.data.capacity
           /\ size = ch.data.size
           /\ in_alive = ch.data.in_alive
           /\ out_alive = ch.data.out_alive
           /\ write_pos = ch.in.pos
           /\ in_old_size = ch.in.old_size
           /\ in_closed = ch.in.closed
           /\ read_pos = ch.out.pos
           /\ out_old_size = ch.out.old_size
           /\ out_closed = ch.out.closed
    /\ storage = [i \in 0..(capacity - 1) |-> Empty]
    /\ ppc = "idle"
    /\ val = Empty
    /\ took_fast_path = FALSE
    /\ put_kind = "copy"
    /\ put_ret = FALSE
    /\ cpc = "idle"
    /\ result = <<>>
    /\ something_changed = FALSE
    /\ sent = <<>>
    /\ received = <<>>

\* no raii_fd constructed and nothing opened
FdInit ==
    /\ fds = [o \in Slots |-> raii_fd_default]
    /\ alive = {}
    /\ kernel = [n \in FdNums |-> "unused"]
    /\ closes = [n \in FdNums |-> 0]
    /\ failed = {}
    /\ moved = FALSE

\* a channel, next to a vector over an empty file that is left alone
Init ==
    /\ ChannelInit(0..MaxCapacity)
    /\ VectorInit({TRUE}, {0}, {0}, {1}, {"none"}, {0})
    /\ FdInit
    /\ VolInit({<<>>})

\* ---------------------------------------------------------------------------
\* in<T>: the producer endpoint

\* put_pred without the peer's death
put_pred_space_only ==
    size < capacity

\* put that never waits
put_pred_nowait ==
    TRUE

\* the wait predicate of put
put_pred ==
    size < capacity \/ ~out_alive

\* wait_till_empty_pred without the peer's death
wait_till_empty_pred_ignores_death ==
    size = 0

\* the wait predicate of wait_till_empty
wait_till_empty_pred ==
    size = 0 \/ ~out_alive

\* put that publishes whenever a slot is free
put_peer_alive_or_space ==
    out_alive \/ size < capacity

\* "the out is still alive", tested with the lock held after the wait
put_peer_alive ==
    out_alive

\* put that copies into storage[write_pos] before the lock whatever its cache says
put_always_fast(v, kind) ==
    /\ ppc = "idle"
    /\ in_closed \/ Len(sent) < MaxPuts
    /\ IF in_closed
       THEN /\ put_ret' = FALSE
            /\ UNCHANGED <<data_vars, write_pos, in_old_size, in_closed, ppc, val,
                           took_fast_path, put_kind, out_vars, sent, received>>
       ELSE /\ val' = v
            /\ put_kind' = kind
            /\ storage' = [storage EXCEPT ![write_pos] = v]
            /\ took_fast_path' = TRUE
            /\ ppc' = "put_wait"
            /\ UNCHANGED <<capacity, size, in_alive, out_alive, write_pos, in_old_size,
                           in_closed, put_ret, out_vars, sent, received>>

\* put, before the lock: the closed check and the fast-path copy into
\* storage[write_pos]; kind tells put(const T&) from put(T&&)
put(v, kind) ==
    /\ ppc = "idle"
    /\ in_closed \/ Len(sent) < MaxPuts
    /\ IF in_closed
       THEN /\ put_ret' = FALSE
            /\ UNCHANGED <<data_vars, write_pos, in_old_size, in_closed, ppc, val,
                           took_fast_path, put_kind, out_vars, sent, received>>
       ELSE /\ val' = v
            /\ put_kind' = kind
            /\ IF in_old_size < capacity
               THEN /\ storage' = [storage EXCEPT ![write_pos] = v]
                    /\ took_fast_path' = TRUE
               ELSE /\ storage' = storage
                    /\ took_fast_path' = FALSE
            /\ ppc' = "put_wait"
            /\ UNCHANGED <<capacity, size, in_alive, out_alive, write_pos, in_old_size,
                           in_closed, put_ret, out_vars, sent, received>>

\* a publish that leaves write_pos where it was
put_publish_keeps_pos ==
    /\ storage' = IF took_fast_path THEN storage
                  ELSE [storage EXCEPT ![write_pos] = val]
    /\ size' = size + 1
    /\ in_old_size' = size + 1
    /\ put_ret' = TRUE
    /\ write_pos' = write_pos
    /\ sent' = Append(sent, val)
    /\ UNCHANGED <<in_alive, in_closed>>

\* put with the lock held and the wait over, the consumer alive: publish the slot
put_publish ==
    /\ storage' = IF took_fast_path THEN storage
                  ELSE [storage EXCEPT ![write_pos] = val]
    /\ size' = size + 1
    /\ in_old_size' = size + 1
    /\ put_ret' = TRUE
    /\ write_pos' = wrapping_inc(write_pos, capacity)
    /\ sent' = Append(sent, val)
    /\ UNCHANGED <<in_alive, in_closed>>

\* put with the lock held and the wait over, the consumer dead
put_peer_dead ==
    /\ in_alive' = FALSE
    /\ in_old_size' = IF put_kind = "copy" THEN capacity ELSE in_old_size
    /\ in_closed' = TRUE
    /\ put_ret' = FALSE
    /\ UNCHANGED <<storage, size, write_pos, sent>>

\* put at cv.wait and after it: park, or run the critical section, notify
\* (the lock is still held) and return
put_locked ==
    /\ ppc = "put_wait"
    /\ IF put_pred
       THEN /\ IF put_peer_alive THEN put_publish ELSE put_peer_dead
            /\ cpc' = notify_one(cpc)
            /\ ppc' = "idle"
            /\ val' = Empty
            /\ took_fast_path' = FALSE
            /\ put_kind' = "copy"
            /\ UNCHANGED <<capacity, out_alive, read_pos, out_old_size, out_closed,
                           result, something_changed, received>>
       ELSE /\ ppc' = "put_parked"
            /\ UNCHANGED <<data_vars, write_pos, in_old_size, in_closed, val,
                           took_fast_path, put_kind, put_ret, out_vars, sent, received>>

\* wait_till_empty: the call (there is no closed check)
wait_till_empty ==
    /\ ppc = "idle"
    /\ ppc' = "wte_wait"
    /\ UNCHANGED <<data_vars, write_pos, in_old_size, in_closed, val, took_fast_path,
                   put_kind, put_ret, out_vars, sent, received>>

\* wait_till_empty at cv.wait and after it, up to the end of the lock's scope
wait_till_empty_locked ==
    /\ ppc = "wte_wait"
    /\ IF wait_till_empty_pred
       THEN /\ in_old_size' = size
            /\ IF ~out_alive
               THEN in_alive' = FALSE /\ in_closed' = TRUE
               ELSE UNCHANGED <<in_alive, in_closed>>
            /\ ppc' = "wte_notify"
       ELSE /\ ppc' = "wte_parked"
            /\ UNCHANGED <<in_old_size, in_alive, in_closed>>
    /\ UNCHANGED <<capacity, size, storage, out_alive, write_pos, val, took_fast_path,
                   put_kind, put_ret, out_vars, sent, received>>

\* a producer operation that forgets its notify_one
in_notify_lost(from, to) ==
    /\ ppc = from
    /\ cpc' = cpc
    /\ ppc' = to
    /\ UNCHANGED <<data_vars, write_pos, in_old_size, in_closed, val, took_fast_path,
                   put_kind, put_ret, read_pos, out_old_size, out_closed, result,
                   something_changed, sent, received>>

\* the notify_one a producer operation issues after its lock is released;
\* from is where the producer stands, to where it continues
in_notify(from, to) ==
    /\ ppc = from
    /\ cpc' = notify_one(cpc)
    /\ ppc' = to
    /\ UNCHANGED <<data_vars, write_pos, in_old_size, in_closed, val, took_fast_path,
                   put_kind, put_ret, read_pos, out_old_size, out_closed, result,
                   something_changed, sent, received>>

wait_till_empty_notify == in_notify("wte_notify", "idle")

\* in<T>::close up to the end of the lock's scope; then is where the producer
\* continues when it has to notify, done where it continues when already closed
in_close_locked(then, done) ==
    /\ ppc = "idle"
    /\ IF in_closed
       THEN /\ ppc' = done
            /\ UNCHANGED <<in_alive, in_closed>>
       ELSE /\ in_alive' = FALSE
            /\ in_closed' = TRUE
            /\ ppc' = then
    /\ UNCHANGED <<capacity, size, storage, out_alive, write_pos, in_old_size, val,
                   took_fast_path, put_kind, put_ret, out_vars, sent, received>>

in_close == in_close_locked("close_notify", "idle")

in_close_notify == in_notify("close_notify", "idle")

\* ~in: close() when shared is set (it is, for a constructed endpoint); the
\* endpoint is gone afterwards
in_destroy == in_close_locked("dtor_notify", "gone")

in_destroy_notify == in_notify("dtor_notify", "gone")

\* ---------------------------------------------------------------------------
\* out<T>: the consumer endpoint
\* result is the std::optional under construction: <<>> is nullopt, <<v>> holds
\* v (get, try_get), a longer sequence is the vector of get_all / try_get_all

\* get that never waits
get_pred_nowait ==
    TRUE

\* the wait predicate of get and get_all
get_pred ==
    size > 0 \/ ~in_alive

\* the queue counts as non-empty only while the producer lives
out_nonempty_alive_only ==
    size > 0 /\ in_alive

\* "there is something in the queue", tested with the lock held
out_nonempty ==
    size > 0

\* the drain loop collecting newest first
RECURSIVE drain_lifo(_, _, _, _)
drain_lifo(n, pos, stor, v) ==
    IF n = 0
    THEN [v |-> v, read_pos |-> pos, storage |-> stor]
    ELSE drain_lifo(n - 1, wrapping_inc(pos, capacity),
                    [stor EXCEPT ![pos] = Empty], <<stor[pos]>> \o v)

\* the loop of get_all / try_get_all: n iterations of
\*   v.emplace_back(std::move(storage[read_pos])); read_pos = wrapping_inc(...)
\* from position pos over storage stor, appending to v
RECURSIVE drain(_, _, _, _)
drain(n, pos, stor, v) ==
    IF n = 0
    THEN [v |-> v, read_pos |-> pos, storage |-> stor]
    ELSE drain(n - 1, wrapping_inc(pos, capacity),
               [stor EXCEPT ![pos] = Empty], Append(v, stor[pos]))

\* the consumer returns r to its caller and is idle again
out_return(r) ==
    /\ received' = received \o r
    /\ result' = <<>>
    /\ something_changed' = FALSE
    /\ cpc' = "idle"

\* the closed check and the pre-lock fast path shared by get and try_get:
\* move storage[read_pos] out when the cached size says there is an element
out_fast_path(next) ==
    /\ cpc = "idle"
    /\ IF out_closed
       THEN UNCHANGED <<storage, cpc, result, something_changed>>
       ELSE /\ IF out_old_size > 0
               THEN /\ result' = <<storage[read_pos]>>
                    /\ storage' = [storage EXCEPT ![read_pos] = Empty]
                    /\ something_changed' = TRUE
               ELSE /\ result' = <<>>
                    /\ storage' = storage
                    /\ something_changed' = FALSE
            /\ cpc' = next
    /\ UNCHANGED <<capacity, size, in_alive, out_alive, in_vars, read_pos, out_old_size,
                   out_closed, sent, received>>

\* the optional get / try_get end up with when size > 0 under the lock: the
\* value the fast path moved out, else the one moved out now
out_front ==
    IF result = <<>> THEN <<storage[read_pos]>> ELSE result

\* a take that caches the size it found, not the size it leaves
out_take_stale_cache ==
    /\ storage' = IF result = <<>> THEN [storage EXCEPT ![read_pos] = Empty]
                  ELSE storage
    /\ size' = size - 1
    /\ out_old_size' = size
    /\ read_pos' = wrapping_inc(read_pos, capacity)
    /\ UNCHANGED <<out_alive, out_closed>>

\* take the front element with the lock held (get, try_get)
out_take ==
    /\ storage' = IF result = <<>> THEN [storage EXCEPT ![read_pos] = Empty]
                  ELSE storage
    /\ size' = size - 1
    /\ out_old_size' = size - 1
    /\ read_pos' = wrapping_inc(read_pos, capacity)
    /\ UNCHANGED <<out_alive, out_closed>>

\* the producer is dead and the queue is empty: the consumer closes too
out_end_of_stream ==
    /\ out_alive' = FALSE
    /\ out_old_size' = 0
    /\ out_closed' = TRUE
    /\ UNCHANGED <<storage, size, read_pos>>

\* drain everything with the lock held (get_all, try_get_all)
out_take_all ==
    LET d == drain(size, read_pos, storage, <<>>)
    IN  /\ result' = d.v
        /\ read_pos' = d.read_pos
        /\ storage' = d.storage
        /\ size' = 0
        /\ out_old_size' = 0
        /\ UNCHANGED <<out_alive, out_closed>>

get == out_fast_path("get_wait")

\* get at cv.wait and after it: park, or run the critical section, notify
\* (the lock is still held) and return
get_locked ==
    /\ cpc = "get_wait"
    /\ IF get_pred
       THEN /\ IF out_nonempty
               THEN out_take /\ out_return(out_front)
               ELSE out_end_of_stream /\ out_return(result)
            /\ ppc' = notify_one(ppc)
            /\ UNCHANGED <<capacity, in_alive, write_pos, in_old_size, in_closed, val,
                           took_fast_path, put_kind, put_ret, sent>>
       ELSE /\ cpc' = "get_parked"
            /\ UNCHANGED <<data_vars, in_vars, read_pos, out_old_size, out_closed,
                           result, something_changed, sent, received>>

\* get_all that takes the lock whether or not the endpoint is closed
get_all_unchecked ==
    /\ cpc = "idle"
    /\ cpc' = "getall_wait"
    /\ UNCHANGED <<data_vars, in_vars, read_pos, out_old_size, out_closed, result,
                   something_changed, sent, received>>

\* get_all: the closed check
get_all ==
    /\ cpc = "idle"
    /\ IF out_closed THEN cpc' = cpc ELSE cpc' = "getall_wait"
    /\ UNCHANGED <<data_vars, in_vars, read_pos, out_old_size, out_closed, result,
                   something_changed, sent, received>>

\* get_all at cv.wait and after it, up to the end of the lock's scope
get_all_locked ==
    /\ cpc = "getall_wait"
    /\ IF get_pred
       THEN /\ IF out_nonempty
               THEN out_take_all
               ELSE out_end_of_stream /\ result' = result
            /\ cpc' = "getall_notify"
       ELSE /\ cpc' = "getall_parked"
            /\ UNCHANGED <<size, storage, out_alive, read_pos, out_old_size, out_closed,
                           result>>
    /\ UNCHANGED <<capacity, in_alive, in_vars, something_changed, sent, received>>

\* a consumer operation that returns without its notify_one
out_notify_lost(from, wanted, to) ==
    /\ cpc = from
    /\ ppc' = ppc
    /\ received' = received \o result
    /\ result' = <<>>
    /\ something_changed' = FALSE
    /\ cpc' = to
    /\ UNCHANGED <<data_vars, write_pos, in_old_size, in_closed, val, took_fast_path,
                   put_kind, put_ret, read_pos, out_old_size, out_closed, sent>>

\* the notify_one a consumer operation issues after its lock is released
\* (when wanted), and the return of the operation
out_notify(from, wanted, to) ==
    /\ cpc = from
    /\ ppc' = IF wanted THEN notify_one(ppc) ELSE ppc
    /\ received' = received \o result
    /\ result' = <<>>
    /\ something_changed' = FALSE
    /\ cpc' = to
    /\ UNCHANGED <<data_vars, write_pos, in_old_size, in_closed, val, took_fast_path,
                   put_kind, put_ret, read_pos, out_old_size, out_closed, sent>>

get_all_notify == out_notify("getall_notify", TRUE, "idle")

try_get == out_fast_path("tryget_lock")

\* try_get with the lock (the unique_lock constructor blocks until it owns it)
try_get_locked ==
    /\ cpc = "tryget_lock"
    /\ IF out_nonempty
       THEN /\ out_take /\ result' = out_front
            /\ something_changed' = TRUE
       ELSE IF ~in_alive
            THEN out_end_of_stream /\ something_changed' = TRUE /\ result' = result
            ELSE UNCHANGED <<size, storage, out_alive, read_pos, out_old_size,
                             out_closed, result, something_changed>>
    /\ cpc' = "tryget_notify"
    /\ UNCHANGED <<capacity, in_alive, in_vars, sent, received>>

\* try_get that notifies whether or not it changed anything
try_get_notify_always == out_notify("tryget_notify", TRUE, "idle")

try_get_notify == out_notify("tryget_notify", something_changed, "idle")

\* try_get_all: the closed check
try_get_all ==
    /\ cpc = "idle"
    /\ IF out_closed THEN cpc' = cpc ELSE cpc' = "trygetall_lock"
    /\ UNCHANGED <<data_vars, in_vars, read_pos, out_old_size, out_closed, result,
                   something_changed, sent, received>>

\* try_get_all with the lock; something_changed is its local `changed`
try_get_all_locked ==
    /\ cpc = "trygetall_lock"
    /\ IF out_nonempty
       THEN out_take_all /\ something_changed' = TRUE
       ELSE IF ~in_alive
            THEN out_end_of_stream /\ something_changed' = TRUE /\ result' = result
            ELSE UNCHANGED <<size, storage, out_alive, read_pos, out_old_size,
                             out_closed, result, something_changed>>
    /\ cpc' = "trygetall_notify"
    /\ UNCHANGED <<capacity, in_alive, in_vars, sent, received>>

try_get_all_notify == out_notify("trygetall_notify", something_changed, "idle")

\* out<T>::close up to the end of the lock's scope
out_close_locked(then, done) ==
    /\ cpc = "idle"
    /\ IF out_closed
       THEN /\ cpc' = done
            /\ UNCHANGED <<out_alive, out_closed>>
       ELSE /\ out_alive' = FALSE
            /\ out_closed' = TRUE
            /\ cpc' = then
    /\ UNCHANGED <<capacity, size, storage, in_alive, in_vars, read_pos, out_old_size,
                   result, something_changed, sent, received>>

out_close == out_close_locked("close_notify", "idle")

out_close_notify == out_notify("close_notify", TRUE, "idle")

\* ~out: close() when shared is set; the endpoint is gone afterwards
out_destroy == out_close_locked("dtor_notify", "gone")

out_destroy_notify == out_notify("dtor_notify", TRUE, "gone")

\* ---------------------------------------------------------------------------
\* the condition variable may resume a parked thread at any time

spurious_wakeup ==
    /\ \/ ppc \in Parked /\ ppc' = notify_one(ppc) /\ cpc' = cpc
       \/ cpc \in Parked /\ cpc' = notify_one(cpc) /\ ppc' = ppc
    /\ UNCHANGED <<data_vars, write_pos, in_old_size, in_closed, val, took_fast_path,
                   put_kind, put_ret, read_pos, out_old_size, out_closed, result,
                   something_changed, sent, received>>

\* ---------------------------------------------------------------------------
\* the two threads

\* steps that start a producer operation
ProducerCall ==
    \/ \E v \in Values, kind \in {"copy", "move"} : put(v, kind)
    \/ wait_till_empty
    \/ in_close
    \/ in_destroy

\* steps that continue a producer operation under way
ProducerProgress ==
    \/ put_locked
    \/ wait_till_empty_locked
    \/ wait_till_empty_notify
    \/ in_close_notify
    \/ in_destroy_notify

\* steps that start a consumer operation
ConsumerCall ==
    \/ get
    \/ get_all
    \/ try_get
    \/ try_get_all
    \/ out_close
    \/ out_destroy

\* steps that continue a consumer operation under way
ConsumerProgress ==
    \/ get_locked
    \/ get_all_locked
    \/ get_all_notify
    \/ try_get_locked
    \/ try_get_notify
    \/ try_get_all_locked
    \/ try_get_all_notify
    \/ out_close_notify
    \/ out_destroy_notify

Next ==
    \/ ProducerCall /\ UNCHANGED chan_frame
    \/ ProducerProgress /\ UNCHANGED chan_frame
    \/ ConsumerCall /\ UNCHANGED chan_frame
    \/ ConsumerProgress /\ UNCHANGED chan_frame
    \/ spurious_wakeup /\ UNCHANGED chan_frame

Spec == Init /\ [][Next]_vars

\* a thread inside an operation is scheduled again (preemptive OS threads);
\* a parked thread only continues when it is resumed
LiveSpec ==
    /\ Spec
    /\ WF_vars(ProducerProgress /\ UNCHANGED chan_frame)
    /\ WF_vars(ConsumerProgress /\ UNCHANGED chan_frame)

\* LiveSpec with a consumer that keeps calling get while it is idle
DrainSpec == LiveSpec /\ WF_vars(get /\ UNCHANGED chan_frame)

\* ---------------------------------------------------------------------------
\* the calls of the thread that owns the vector

\* the call ends: r is what the operation yields
Leave(r, call) ==
    /\ vec' = r.s.v
    /\ disk' = r.s.d
    /\ vret' = r.ret
    /\ vcall' = call
    /\ before' = S
    /\ vpc' = CASE r.exc = "none" -> "returned"
                [] r.exc = "throw" -> "thrown"
                [] OTHER -> "aborted"

\* the history after count elements of arr went to the indices from start on
Store(r, start, arr, count) ==
    IF /\ r.exc = "none" /\ ~r.ret.null
       /\ written.index >= start /\ written.index < start + count
    THEN [written EXCEPT !.value = arr[written.index - start + 1]]
    ELSE written

vec_reserve ==
    /\ vpc = "ready"
    /\ \E count \in Sizes, io \in {"none", "resize"} :
           /\ Leave(reserve(S, count, io), Call("reserve", vec.used, count, <<>>))
           /\ UNCHANGED <<written, vec_frame>>

vec_write ==
    /\ vpc = "ready"
    /\ \E count \in 0..MaxCount, io \in {"none", "resize", "seek_start", "transfer", "seek_iter"} :
           \E arr \in Arrays(count) :
               LET r == write(S, arr, count, io)
               IN  /\ Leave(r, Call("write", vec.iter, count, arr))
                   /\ written' = Store(r, vec.iter, arr, count)
                   /\ UNCHANGED vec_frame

vec_write_at ==
    /\ vpc = "ready"
    /\ \E start \in Sizes, count \in 0..MaxCount,
          io \in {"none", "seek_start", "transfer", "seek_iter"} :
           \E arr \in Arrays(count) :
               LET r == write_at(S, start, arr, count, io)
               IN  /\ Leave(r, Call("write_at", start, count, arr))
                   /\ written' = Store(r, start, arr, count)
                   /\ UNCHANGED vec_frame

vec_read ==
    /\ vpc = "ready"
    /\ \E count \in Sizes, io \in {"none", "alloc", "seek_start", "transfer", "seek_iter"} :
           /\ Leave(read(S, count, io), Call("read", vec.iter, count, <<>>))
           /\ UNCHANGED <<written, vec_frame>>

vec_read_at ==
    /\ vpc = "ready"
    /\ \E start \in Sizes, count \in Sizes,
          io \in {"none", "alloc", "seek_start", "transfer", "seek_iter"} :
           /\ Leave(read_at(S, start, count, io), Call("read_at", start, count, <<>>))
           /\ UNCHANGED <<written, vec_frame>>

vec_peek ==
    /\ vpc = "ready"
    /\ \E count \in Sizes, io \in {"none", "alloc", "seek_start", "transfer", "seek_iter"} :
           /\ Leave(peek(S, count, io), Call("peek", vec.iter, count, <<>>))
           /\ UNCHANGED <<written, vec_frame>>

vec_move_to ==
    /\ vpc = "ready"
    /\ \E start \in Sizes, io \in {"none", "seek_start"} :
           /\ Leave(move_to(S, start, io), Call("move_to", start, 0, <<>>))
           /\ UNCHANGED <<written, vec_frame>>

vec_flush ==
    /\ vpc = "ready"
    /\ \E io \in {"none", "fsync"} :
           /\ Leave(flush(S, io), Call("flush", 0, 0, <<>>))
           /\ UNCHANGED <<written, vec_frame>>

\* the caller takes the result, or catches the exception, and goes on
vec_resume ==
    /\ vpc \in {"returned", "thrown"}
    /\ vpc' = "ready"
    /\ vcall' = NoCall
    /\ before' = S
    /\ vret' = Null
    /\ UNCHANGED <<vec, disk, written, vec_frame>>

VecNext ==
    \/ vec_reserve
    \/ vec_write
    \/ vec_write_at
    \/ vec_read
    \/ vec_read_at
    \/ vec_peek
    \/ vec_move_to
    \/ vec_flush
    \/ vec_resume

VecInit ==
    /\ ChannelInit({1})
    /\ VectorInit(BOOLEAN, 0..MaxInitLen, 0..MaxInitUsed, 1..MaxChunk,
                  {"none", "seek_start"}, {MaxInitUsed})
    /\ FdInit
    /\ VolInit({<<>>})

VecSpec == VecInit /\ [][VecNext]_vars

\* ---------------------------------------------------------------------------
\* raii_fd objects: constructed, used, moved and destroyed

\* what no raii_fd operation assigns
fd_frame == <<chan_vars, vec_vars, vol_vars>>

\* the object in slot o with a file; what the file of its fd holds and where
\* its position is only decides whether a call fails, which is chosen for
\* every call
FdState(o) == [v |-> [file |-> fds[o]], d |-> NewFile]

\* a system call on the fd of slot o fails with EBADF if the fd is not an
\* open descriptor
BadFd(o) ==
    fds[o].fd \notin FdNums \/ kernel[fds[o].fd] # "open"

\* the method called on slot o ends: r is what it yields
FdLeave(o, r) ==
    /\ fds' = [fds EXCEPT ![o] = r.s.v.file]
    /\ failed' = IF r.ok THEN failed ELSE failed \cup {o}
    /\ UNCHANGED <<alive, kernel, closes, moved, fd_frame>>

\* raii_fd(path, flags, mode) constructed in a free slot
raii_open ==
    \E o \in Slots \ alive, opened \in BOOLEAN :
        LET free == {n \in FdNums : kernel[n] = "unused"}
            res == IF opened /\ free # {}
                   THEN CHOOSE n \in free : \A m \in free : n <= m
                   ELSE -1
        IN  /\ fds' = [fds EXCEPT ![o] = raii_fd_open(res, 2, 1)]
            /\ alive' = alive \cup {o}
            /\ kernel' = IF res < 0 THEN kernel
                         ELSE [kernel EXCEPT ![res] = "open"]
            /\ failed' = IF res < 0 THEN failed \cup {o} ELSE failed
            /\ UNCHANGED <<closes, moved, fd_frame>>

\* raii_fd(std::move(move_from)) constructed in a free slot
raii_move_construct(o, move_from) ==
    /\ o \in Slots \ alive
    /\ move_from \in alive
    /\ LET r == raii_fd_move_ctor(fds[move_from])
       IN  fds' = [fds EXCEPT ![o] = r.this, ![move_from] = r.move_from]
    /\ alive' = alive \cup {o}
    /\ UNCHANGED <<kernel, closes, failed, moved, fd_frame>>

\* fds[o] = std::move(fds[move_from])
raii_move_assign(o, move_from) ==
    /\ o \in alive
    /\ move_from \in alive \ {o}
    /\ LET r == raii_fd_move_assign(fds[o], fds[move_from])
       IN  fds' = [fds EXCEPT ![o] = r.this, ![move_from] = r.move_from]
    /\ moved' = (moved \/ (fds[o].fd >= 0 /\ fds[move_from].fd >= 0))
    /\ UNCHANGED <<alive, kernel, closes, failed, fd_frame>>

\* ~raii_fd
raii_destroy ==
    \E o \in alive :
        LET fd == fds[o].fd
        IN  /\ IF fd >= 0
               THEN /\ closes' = [closes EXCEPT ![fd] = closes[fd] + 1]
                    /\ kernel' = [kernel EXCEPT ![fd] = "closed"]
               ELSE UNCHANGED <<closes, kernel>>
            /\ alive' = alive \ {o}
            /\ fds' = [fds EXCEPT ![o] = raii_fd_default]
            /\ failed' = failed \ {o}
            /\ UNCHANGED <<moved, fd_frame>>

raii_read ==
    \E o \in alive, fails \in BOOLEAN :
        FdLeave(o, fd_read(FdState(o), ElemSize, fails \/ BadFd(o)))

raii_write ==
    \E o \in alive, fails \in BOOLEAN :
        FdLeave(o, fd_write(FdState(o), <<Empty>>, ElemSize, fails \/ BadFd(o)))

raii_seek ==
    \E o \in alive, where \in {0, Word - 1}, fails \in BOOLEAN :
        FdLeave(o, fd_seek(FdState(o), where, fails \/ BadFd(o)))

raii_size_then_reset ==
    \E o \in alive, fails \in BOOLEAN :
        FdLeave(o, size_then_reset(FdState(o), fails \/ BadFd(o)))

FdNext ==
    \/ raii_open
    \/ \E o \in Slots, move_from \in Slots : raii_move_construct(o, move_from)
    \/ \E o \in Slots, move_from \in Slots : raii_move_assign(o, move_from)
    \/ raii_destroy
    \/ raii_read
    \/ raii_write
    \/ raii_seek
    \/ raii_size_then_reset

\* raii_fd objects, next to a channel, a vector and a volume that are left
\* alone
FdSpecInit ==
    /\ ChannelInit({1})
    /\ VectorInit({TRUE}, {0}, {0}, {1}, {"none"}, {0})
    /\ FdInit
    /\ VolInit({<<>>})

FdSpec == FdSpecInit /\ [][FdNext]_vars

\* ---------------------------------------------------------------------------
\* the calls of the thread that owns the volume

\* what no volume operation assigns
vol_frame == <<chan_vars, vec_vars, fd_vars>>

\* the call ends: r is what the operation yields
VolLeave(r, call) ==
    /\ volume' = r.s.vol
    /\ sidecar' = r.s.f
    /\ volret' = r.ret
    /\ volcalls' = r.calls
    /\ volcall' = call
    /\ volbefore' = VolS
    /\ volpc' = IF r.exc = "none" THEN "running" ELSE "aborted"

vol_load_config ==
    /\ volpc = "running"
    /\ \E io \in {"none", "seek_end", "seek_set", "read", "short_read"},
          front \in {"go_on", "abort"} :
           VolLeave(load_config(VolS, io, front), VolCall("load_config", io))
    /\ UNCHANGED <<saved, vol_frame>>

vol_write_current_config ==
    /\ volpc = "running"
    /\ \E io \in {"none", "truncate", "seek", "write", "short_write"},
          order \in Orders(volume.unfinished_records) :
           LET r == write_current_config(VolS, order, io)
           IN  /\ VolLeave(r, VolCall("write_current_config", io))
               /\ saved' = [valid |-> ~r.s.vol.error /\ io = "none",
                            map |-> volume.unfinished_records,
                            config |-> volume.config]
    /\ UNCHANGED vol_frame

\* the volume is dropped and a new one is opened over the same sidecar
vol_reopen ==
    /\ volpc = "running"
    /\ volume' = volume_new
    /\ sidecar' = [sidecar EXCEPT !.pos = 0]
    /\ volcall' = VolCall("open", "none")
    /\ volbefore' = VolS
    /\ volret' = Null
    /\ volcalls' = <<>>
    /\ UNCHANGED <<volpc, saved, vol_frame>>

\* another process rewrites the sidecar while the volume has it open
vol_sidecar_replaced ==
    /\ volpc = "running"
    /\ volcall.op # "replaced"
    /\ \E bytes \in OtherSidecars \ {sidecar.bytes} :
           sidecar' = [sidecar EXCEPT !.bytes = bytes]
    /\ volcall' = VolCall("replaced", "none")
    /\ volbefore' = VolS
    /\ volret' = Null
    /\ volcalls' = <<>>
    /\ saved' = [saved EXCEPT !.valid = FALSE]
    /\ UNCHANGED <<volume, volpc, vol_frame>>

VolNext ==
    \/ vol_load_config
    \/ vol_write_current_config
    \/ vol_reopen
    \/ vol_sidecar_replaced

\* a volume over any of the sidecars, next to a channel, a vector and raii_fd
\* slots that are left alone
VolSpecInit ==
    /\ ChannelInit({1})
    /\ VectorInit({TRUE}, {0}, {0}, {1}, {"none"}, {0})
    /\ FdInit
    /\ VolInit(InitSidecars)

VolSpec == VolSpecInit /\ [][VolNext]_vars

\* ---------------------------------------------------------------------------
\* properties

IsPrefix(a, b) ==
    /\ Len(a) <= Len(b)
    /\ SubSeq(b, 1, Len(a)) = a

\* the step is one the consumer takes inside get / get_all / try_get / try_get_all
\* with the lock held
ConsumerLockedStep ==
    /\ cpc \in {"get_wait", "getall_wait", "tryget_lock", "trygetall_lock"}
    /\ cpc' # cpc

\* C1: the values returned to the consumer, in the order returned, are a prefix
\* of the values whose put returned true: same order, none twice, none skipped.
C1_FifoPrefix ==
    IsPrefix(received, sent)

C1_Witness ==
    /\ received = sent
    /\ Len(received) > capacity
    /\ capacity > 1
    /\ received[1] # received[2]

\* C2: when the consumer becomes closed inside get / get_all / try_get /
\* try_get_all (end of stream), the producer is dead and every value whose put
\* returned true has been returned; and a dead producer adds no value.
C2_EndOfStreamAfterAll ==
    [][ /\ (ConsumerLockedStep /\ ~out_closed /\ out_closed')
            => (~in_alive' /\ result' = <<>> /\ received' = sent')
        /\ ~in_alive => sent' = sent ]_vars

C2_Witness ==
    /\ cpc = "getall_notify"
    /\ out_closed
    /\ Len(sent) > 1
    /\ received = sent

\* C3: a consumer parked in get / get_all whose producer has closed (close or
\* destruction) leaves the wait, returns end of stream and is closed.
C3_BlockedGetReturns ==
    (cpc \in {"get_parked", "getall_parked"} /\ ~in_alive)
        ~> (cpc = "idle" /\ out_closed /\ ~out_alive /\ result = <<>>)

C3_Witness ==
    /\ cpc \in {"get_parked", "getall_parked"}
    /\ ~in_alive
    /\ ppc \in {"close_notify", "dtor_notify"}

\* C4: a producer parked in put or wait_till_empty whose consumer has closed
\* (close or destruction) leaves the wait and returns closed, put with false.
C4_BlockedPutReturns ==
    /\ (ppc = "put_parked" /\ ~out_alive)
          ~> (ppc = "idle" /\ in_closed /\ ~in_alive /\ ~put_ret)
    /\ (ppc = "wte_parked" /\ ~out_alive)
          ~> (ppc = "idle" /\ in_closed /\ ~in_alive)

C4_Witness ==
    /\ ppc \in {"put_parked", "wte_parked"}
    /\ ~out_alive
    /\ cpc \in {"close_notify", "dtor_notify"}

\* C5: a put that gets the lock returns true exactly when the consumer is alive
\* at that moment; with the consumer dead it returns false even when slots are
\* free, closes the producer, clears in_alive and leaves size and write_pos alone.
C5_PutResult ==
    [][ (ppc = "put_wait" /\ ppc' = "idle")
          => /\ put_ret' = out_alive
             /\ out_alive => (size' = size + 1 /\ in_closed' = in_closed)
             /\ ~out_alive => /\ in_closed' /\ ~in_alive'
                              /\ size' = size /\ write_pos' = write_pos
                              /\ sent' = sent ]_vars

C5_Witness ==
    /\ ppc = "idle"
    /\ ~put_ret
    /\ in_closed
    /\ ~in_alive
    /\ sent = <<>>
    /\ in_old_size = capacity

C7_TryEmptyNoEffect ==
    [][ /\ (cpc \in {"tryget_lock", "trygetall_lock"} /\ cpc' # cpc
              /\ size = 0 /\ in_alive)
            => /\ UNCHANGED <<size, read_pos, storage, out_alive, out_closed>>
               /\ result' = <<>>
               /\ ~something_changed'
               /\ cpc' \in {"tryget_notify", "trygetall_notify"}
        /\ (cpc \in {"tryget_notify", "trygetall_notify"} /\ cpc' # cpc
              /\ ~something_changed)
            => /\ cpc' = "idle"
               /\ ppc' = ppc
               /\ received' = received ]_vars

C7_Witness ==
    /\ cpc \in {"tryget_notify", "trygetall_notify"}
    /\ ~something_changed
    /\ ppc \in Parked

\* C8: get_all / try_get_all with size > 0 under the lock take exactly the size
\* buffered elements, oldest first from read_pos with wrap-around (the next size
\* values of the put order), leave size 0 and read_pos advanced by that count
\* modulo capacity.
C8_DrainAll ==
    [][ (cpc \in {"getall_wait", "trygetall_lock"} /\ cpc' # cpc /\ size > 0)
          => /\ result' = [i \in 1..size |-> storage[(read_pos + i - 1) % capacity]]
             /\ result' = SubSeq(sent, Len(received) + 1, Len(received) + size)
             /\ size' = 0
             /\ read_pos' = (read_pos + size) % capacity
             /\ cpc' \in {"getall_notify", "trygetall_notify"} ]_vars

C8_Witness ==
    /\ cpc \in {"getall_notify", "trygetall_notify"}
    /\ capacity > 1
    /\ Len(result) = capacity
    /\ read_pos # 0
    /\ result[1] # result[2]

\* C9: apart from its own close / destruction the consumer becomes closed (and
\* out_alive false) only in a step taken with the lock held in a state where the
\* producer is dead and size is 0.
C9_CloseOnlyWhenDrainedAndDead ==
    [][ (out_closed' # out_closed \/ out_alive' # out_alive)
          => /\ ~out_closed /\ out_closed' /\ out_alive /\ ~out_alive'
             /\ \/ cpc = "idle" /\ cpc' \in {"close_notify", "dtor_notify"}
                \/ ConsumerLockedStep /\ ~in_alive /\ size = 0 ]_vars

C9_Witness ==
    /\ cpc = "tryget_notify"
    /\ out_closed
    /\ something_changed
    /\ sent # <<>>

\* C10: 0 <= size <= capacity always; size grows only by one, in put, from a
\* size below capacity; size shrinks only in the consumer, from a size above 0.
C10_SizeBounds ==
    /\ [](0 <= size /\ size <= capacity)
    /\ [][ /\ size' > size => (size < capacity /\ size' = size + 1 /\ ppc = "put_wait")
           /\ size' < size => (size > 0 /\ ConsumerLockedStep) ]_vars

C10_Witness ==
    /\ size = capacity
    /\ capacity > 1
    /\ ppc = "put_parked"
    /\ cpc = "tryget_lock"

\* C11: CreateBufferedChannel returns both endpoints open, with in_alive and
\* out_alive true (destroying the moved-from locals of the factory flips
\* neither flag), for every requested capacity; a requested capacity of 0
\* yields capacity 1, so that with the consumer alive a put into the empty
\* channel succeeds and a put into the channel holding one element blocks
C11_Factory ==
    /\ [](LET ch == CreateBufferedChannel(requested)
          IN  /\ ch.data.in_alive /\ ch.data.out_alive
              /\ ch.in.shared /\ ~ch.in.closed
              /\ ch.out.shared /\ ~ch.out.closed
              /\ ch.data.capacity = IF requested = 0 THEN 1 ELSE requested
              /\ capacity = ch.data.capacity
              /\ in_alive = ~in_closed
              /\ out_alive = ~out_closed)
    /\ [][(requested = 0 /\ ppc = "put_wait" /\ ppc' # "put_wait" /\ out_alive) =>
            IF size = 0
            THEN ppc' = "idle" /\ put_ret' /\ size' = 1
            ELSE ppc' = "put_parked" /\ size' = size /\ sent' = sent]_vars

\* a channel asked for with capacity 0: one put returned true, the next one
\* is parked, and the consumer has done nothing
C11_Witness ==
    /\ requested = 0
    /\ ppc = "put_parked"
    /\ Len(sent) = 1
    /\ received = <<>>
    /\ cpc = "idle"
    /\ out_alive
    /\ in_alive

\* ---------------------------------------------------------------------------
\* properties of file_based_vector

\* the call op has ended, by a return, an exception or a failed ASSERT
Ended(op) == vpc # "ready" /\ vcall.op = op

\* the call op has returned something other than nullopt, nullptr or false
Succeeded(op) == vpc = "returned" /\ vcall.op = op /\ ~vret.null

\* the element a read of index i finds in the file
ElemAt(d, i) == d.data[(Mul(ElemSize, i) \div ElemSize) + 1]

\* the call has returned nullopt, nullptr or false and has left used,
\* capacity, iter, the file and the error bit as they were
Rejected ==
    /\ vpc = "returned"
    /\ vret.null
    /\ vec.used = before.v.used
    /\ vec.capacity = before.v.capacity
    /\ vec.iter = before.v.iter
    /\ vec.error = before.v.error
    /\ disk.len = before.d.len
    /\ disk.data = before.d.data

\* C12: read_at(start, count) with start + count <= used on a vector that is
\* not in error state returns, for each index of the range, the element most
\* recently handed to write or write_at for that index (stated for the index
\* whose history is kept)
C12_ReadAtReturnsLastWritten ==
    (/\ Succeeded("read_at")
     /\ written.value # Empty
     /\ written.index >= vcall.start
     /\ written.index < vcall.start + vcall.count) =>
        vret.value[written.index - vcall.start + 1] = written.value

\* C13: write_at leaves iter, used and capacity as they were, whether it
\* succeeds or fails
C13_WriteAtKeepsCursor ==
    Ended("write_at") =>
        /\ vec.iter = before.v.iter
        /\ vec.used = before.v.used
        /\ vec.capacity = before.v.capacity

\* a write_at that stored elements, away from the cursor
C13_Witness ==
    /\ Succeeded("write_at")
    /\ vcall.count > 0
    /\ vcall.start # vec.iter
    /\ disk.data # before.d.data

\* C14: after a successful write_at, read, read_at or peek the seek position
\* of the file is iter * sizeof(T), computed in std::size_t, for the cursor
\* the operation leaves: read has advanced it by count, the others have kept it
C14_SeekPositionRestored ==
    /\ (Succeeded("write_at") \/ Succeeded("read_at") \/ Succeeded("peek")) =>
           /\ vec.iter = before.v.iter
           /\ disk.pos = Mul(vec.iter, ElemSize)
    /\ Succeeded("read") =>
           /\ vec.iter = before.v.iter + vcall.count
           /\ disk.pos = Mul(vec.iter, ElemSize)

\* a read_at of elements that do not lie at the cursor has returned them
C14_Witness ==
    /\ Succeeded("read_at")
    /\ vcall.count > 0
    /\ vcall.start # vec.iter
    /\ vec.iter > 0

\* C15: a successful reserve(count) increases used by exactly count, returns
\* the used it found, and changes capacity only if the new used exceeds the
\* capacity it found
C15_ReserveExtendsUsed ==
    Succeeded("reserve") =>
        /\ vec.used = before.v.used + vcall.count
        /\ vret.value = <<before.v.used>>
        /\ vec.capacity # before.v.capacity =>
               before.v.used + vcall.count > before.v.capacity

\* a reserve that fitted the capacity, away from the cursor
C15_Witness ==
    /\ Succeeded("reserve")
    /\ vcall.count > 0
    /\ vec.capacity = before.v.capacity
    /\ before.v.iter < before.v.used

\* C16: after a successful reserve(count), iter is the used the call found
C16_ReserveSetsIterToOldUsed ==
    Succeeded("reserve") => vec.iter = before.v.used

\* C17: a successful write(arr, count) stores the count elements at the
\* indices from the old iter on, returns the old iter, advances iter by
\* exactly count and sets used to the larger of the old used and the new iter
C17_WriteAppendsAtCursor ==
    Succeeded("write") =>
        /\ \A j \in 1..vcall.count :
               ElemAt(disk, before.v.iter + j - 1) = vcall.arr[j]
        /\ vret.value = <<before.v.iter>>
        /\ vec.iter = before.v.iter + vcall.count
        /\ vec.used = Max(before.v.used, before.v.iter + vcall.count)

\* a write of several elements that began inside the used range and ended
\* past it
C17_Witness ==
    /\ Succeeded("write")
    /\ vcall.count > 1
    /\ before.v.iter > 0
    /\ before.v.iter < before.v.used
    /\ vec.used > before.v.used

\* C18: capacity is never reduced; a successful reserve or write whose range
\* ends past the capacity makes capacity the smallest capacity + k * chunk,
\* k >= 1, that holds the range, and the file exactly capacity * sizeof(T)
\* bytes (computed in std::size_t) long; one whose range fits keeps capacity
C18_GrowthByChunks ==
    /\ vpc # "ready" => vec.capacity >= before.v.capacity
    /\ (Succeeded("reserve") \/ Succeeded("write")) =>
           LET end == vcall.start + vcall.count
               cap == before.v.capacity
               chunk == before.v.capacity_chunk_size
           IN  IF end > cap
               THEN /\ \E k \in 1..Word :
                          /\ vec.capacity = cap + k * chunk
                          /\ vec.capacity >= end
                          /\ cap + (k - 1) * chunk < end
                    /\ disk.len = Mul(vec.capacity, ElemSize)
               ELSE vec.capacity = cap

\* a reserve that grew a non-empty file by a chunk of several elements, to
\* more than the range asked for
C18_Witness ==
    /\ Succeeded("reserve")
    /\ vec.capacity_chunk_size > 1
    /\ before.v.capacity > 0
    /\ vec.capacity > before.v.capacity
    /\ vec.capacity > vec.used

\* C19: write_at with start > used, read_at with start + count > used and
\* move_to with start > used return null or false and leave used, capacity,
\* iter, the file and the error bit as they were
C19_OutOfRangeRejected ==
    /\ (Ended("write_at") /\ vcall.start > before.v.used) => Rejected
    /\ (Ended("read_at") /\ vcall.start + vcall.count > before.v.used) => Rejected
    /\ (Ended("move_to") /\ vcall.start > before.v.used) => Rejected

\* C20: reserve, write, read and read_at whose start + count overflows
\* std::size_t return null and leave used, capacity, iter, the file and the
\* error bit as they were
C20_OverflowRejected ==
    \A op \in {"reserve", "write", "read", "read_at"} :
        (Ended(op) /\ vcall.start + vcall.count >= Word) => Rejected

\* C21: the error bit of a file_based_vector is sticky: a call that finds it
\* set leaves it set, returns nullopt, nullptr or false, and leaves used,
\* capacity and iter as they were
C21_ErrorSticky ==
    (vpc # "ready" /\ before.v.error) =>
        /\ vec.error
        /\ vpc = "returned"
        /\ vret.null
        /\ vec.used = before.v.used
        /\ vec.capacity = before.v.capacity
        /\ vec.iter = before.v.iter

\* a write refused by a vector whose error bit was set by a failed read or
\* write on a file that had been opened
C21_Witness ==
    /\ vpc = "returned"
    /\ vcall.op = "write"
    /\ vcall.count > 0
    /\ before.v.error
    /\ before.v.file.error
    /\ before.v.used > 0

\* C22: capacity >= used and iter <= used in every reachable state of a
\* file_based_vector constructed from a file, the one constructed with a
\* used larger than file length / sizeof(T) included
C22_CapacityCoversUsed ==
    vec.file.fd >= 0 => (vec.capacity >= vec.used /\ vec.iter <= vec.used)

\* C23: raii_fd::is_ok() is false from the first failure the object saw on:
\* a failed open, a short or failed read or write, a negative lseek in seek
\* or in size_then_reset
C23_IsOkFalseAfterFailure ==
    \A o \in alive : o \in failed => ~fd_is_ok(fds[o])

\* C24: a descriptor that was opened is held by exactly one raii_fd until it
\* is closed, and is closed once, whatever is move-constructed, move-assigned
\* and destroyed; the source of a move construction is left without an fd
C24_ClosedExactlyOnce ==
    /\ [](\A n \in FdNums :
            LET holders == {o \in alive : fds[o].fd = n}
            IN  CASE kernel[n] = "open" ->
                         closes[n] = 0 /\ Cardinality(holders) = 1
                  [] kernel[n] = "closed" ->
                         closes[n] = 1 /\ holders = {}
                  [] OTHER -> closes[n] = 0 /\ holders = {})
    /\ [][\A o \in Slots, move_from \in Slots :
             raii_move_construct(o, move_from) =>
                 /\ fds'[move_from].fd = -1
                 /\ fds'[o].fd = fds[move_from].fd]_vars

\* every object is destroyed after a move assignment between two objects
\* that both held a descriptor, and every descriptor was closed once
C24_Witness ==
    /\ alive = {}
    /\ moved
    /\ \A n \in FdNums : kernel[n] = "closed" /\ closes[n] = 1

\* ---------------------------------------------------------------------------
\* properties of the volume

\* the call of op that ended last returned
VolEnded(op) == volpc = "running" /\ volcall.op = op

\* a parsed sidecar that load_config has to refuse for its file counts or
\* its sizes
BadLayout(found) ==
    /\ ~found.null
    /\ \/ Len(found.value.blockfiles) # 1
       \/ Len(found.value.recordfiles) # 1
       \/ found.value.info.block_header_size # my_general_info.block_header_size
       \/ found.value.info.record_header_size # my_general_info.record_header_size
       \/ found.value.info.dedup_block_header_size
              # my_general_info.dedup_block_header_size
       \/ found.value.info.dedup_record_header_size
              # my_general_info.dedup_record_header_size

SameKey(a, b) ==
    /\ a.VolSessionId = b.VolSessionId
    /\ a.VolSessionTime = b.VolSessionTime
    /\ a.FileIndex = b.FileIndex
    /\ a.Stream = b.Stream

\* a parsed sidecar with two rows of one key
DuplicateKey(found) ==
    /\ ~found.null
    /\ \E i, j \in 1..Len(found.value.unfinished) :
           i # j /\ SameKey(found.value.unfinished[i], found.value.unfinished[j])

\* C25: a load_config that returns false leaves config and
\* unfinished_records as they were before the call
C25_FailedLoadChangesNothing ==
    (VolEnded("load_config") /\ volret.null) =>
        /\ volume.config = volbefore.vol.config
        /\ volume.unfinished_records = volbefore.vol.unfinished_records

\* C26: load_config returns false and leaves config as it was whenever the
\* parsed sidecar has not exactly one block-file and one record-file or one
\* of its four sizes is not that of this binary
C26_BadLayoutRejected ==
    (VolEnded("load_config") /\ BadLayout(from_bytes(volbefore.f.bytes))) =>
        /\ volret.null
        /\ volume.config = volbefore.vol.config

\* a volume with a loaded config refuses, without any failing system call, a
\* sidecar that has one block-file and one record-file and another size
C26_Witness ==
    /\ VolEnded("load_config")
    /\ volcall.io = "none"
    /\ BadLayout(from_bytes(volbefore.f.bytes))
    /\ Len(from_bytes(volbefore.f.bytes).value.blockfiles) = 1
    /\ Len(from_bytes(volbefore.f.bytes).value.recordfiles) = 1
    /\ Len(volbefore.vol.config.blockfiles) = 1
    /\ volret.null

\* C27: load_config returns false whenever two rows of the sidecar have the
\* same key, and when it returns true no two entries of unfinished_records
\* have the same key
C27_DuplicateKeyRejected ==
    /\ (VolEnded("load_config") /\ DuplicateKey(from_bytes(volbefore.f.bytes)))
           => volret.null
    /\ (VolEnded("load_config") /\ ~volret.null)
           => \A a, b \in volume.unfinished_records : SameKey(a.key, b.key) => a = b

\* a sidecar of this binary with one block-file, one record-file and two
\* rows of one key is read in full and refused
C27_Witness ==
    /\ VolEnded("load_config")
    /\ volcall.io = "none"
    /\ DuplicateKey(from_bytes(volbefore.f.bytes))
    /\ ~BadLayout(from_bytes(volbefore.f.bytes))
    /\ volret.null

\* the rows of a parsed sidecar are the entries of map, each written as
\* (file_index, current, end - current)
RowsWrittenFrom(found, map) ==
    /\ ~found.null
    /\ Len(found.value.unfinished) = Cardinality(map)
    /\ \A e \in map :
           \E i \in 1..Len(found.value.unfinished) :
               LET row == found.value.unfinished[i]
               IN  /\ SameKey(row, e.key)
                   /\ row.DataIdx = e.loc.file_index
                   /\ row.file_offset = e.loc.current
                   /\ row.size = e.loc.end - e.loc.current

\* C28: after write_current_config went through on a volume whose entries
\* have current <= end, the sidecar holds a row (file_index, current,
\* end - current) for every entry, and load_config on a new volume over that
\* sidecar yields the same unfinished_records
C28_UnfinishedRoundTrip ==
    (saved.valid /\ \A e \in saved.map : e.loc.current <= e.loc.end) =>
        /\ VolEnded("write_current_config")
               => RowsWrittenFrom(from_bytes(sidecar.bytes), saved.map)
        /\ (VolEnded("load_config") /\ volbefore.vol = volume_new) =>
               /\ ~volret.null => volume.unfinished_records = saved.map
               /\ (/\ volcall.io = "none"
                   /\ Len(saved.config.blockfiles) = 1
                   /\ Len(saved.config.recordfiles) = 1) => ~volret.null

\* a new volume has loaded two entries from the sidecar another volume wrote
C28_Witness ==
    /\ VolEnded("load_config")
    /\ volbefore.vol = volume_new
    /\ saved.valid
    /\ Cardinality(saved.map) = 2
    /\ \A e \in saved.map : e.loc.current < e.loc.end /\ e.loc.current > 0
    /\ ~volret.null
    /\ volume.unfinished_records = saved.map

\* C29: write_current_config calls ftruncate, lseek and write in this order
\* and stops at the first that fails, with the error flag set; when all three
\* succeed the error flag is what it was, set or not
C29_WriteSequence ==
    VolEnded("write_current_config") =>
        /\ volcalls = CASE volcall.io = "truncate" -> <<"ftruncate">>
                       [] volcall.io = "seek" -> <<"ftruncate", "lseek">>
                       [] OTHER -> <<"ftruncate", "lseek", "write">>
        /\ volcall.io # "none" => volume.error
        /\ volcall.io = "none" => volume.error = volbefore.vol.error
        /\ volcall.io = "truncate" => sidecar = volbefore.f
        /\ volcall.io = "seek" => sidecar = [pos |-> volbefore.f.pos, bytes |-> <<>>]
        /\ volcall.io = "none" => sidecar.bytes # <<>> /\ sidecar.pos = Len(sidecar.bytes)

\* a write_current_config that went through on a volume whose error flag an
\* earlier one had set
C29_Witness ==
    /\ VolEnded("write_current_config")
    /\ volcall.io = "none"
    /\ volbefore.vol.error
    /\ volume.error
    /\ volume.unfinished_records # {}

\* C30: after load_config returned true every entry of unfinished_records
\* has current <= end, names a data-file of the config, and ends no later
\* than that data-file
C30_UnfinishedWithinDataFile ==
    (VolEnded("load_config") /\ ~volret.null) =>
        \A e \in volume.unfinished_records :
            /\ e.loc.current <= e.loc.end
            /\ \E i \in 1..Len(volume.config.datafiles) :
                   /\ volume.config.datafiles[i].index = e.loc.file_index
                   /\ e.loc.end <= volume.config.datafiles[i].end

\* ---------------------------------------------------------------------------
\* the ring, the caches and shutdown of the channel

\* the number of values the consumer has taken out of the ring: those returned
\* and those a finished critical section holds for its caller
Taken ==
    Len(received)
      + IF cpc \in {"getall_notify", "trygetall_notify", "tryget_notify"}
        THEN Len(result) ELSE 0

\* the consumer has moved the front element out before taking the lock
FrontMovedOut ==
    cpc \in {"get_wait", "get_parked", "tryget_lock"} /\ result # <<>>

\* C31: between critical sections write_pos = (read_pos + size) mod capacity
\* and both positions lie in 0..capacity-1; the occupied slots are the size
\* slots from read_pos on (with wrap-around), holding the values put and not
\* yet taken, oldest first (the front one may already be moved out by the
\* consumer's fast path).
C31_RingPositions ==
    /\ 0 <= read_pos /\ read_pos < capacity
    /\ 0 <= write_pos /\ write_pos < capacity
    /\ write_pos = (read_pos + size) % capacity
    /\ Len(sent) = Taken + size
    /\ \A i \in 0..(size - 1) :
          \/ storage[(read_pos + i) % capacity] = sent[Taken + i + 1]
          \/ i = 0 /\ FrontMovedOut

\* the ring has wrapped: the write position is behind the read position
C31_Witness ==
    /\ capacity > 1
    /\ size > 0
    /\ write_pos < read_pos
    /\ Len(received) > 0
    /\ ppc = "idle"
    /\ cpc = "idle"

\* the producer has copied its value into storage[write_pos] before taking
\* the lock and has not published it yet
PendingFastWrite ==
    ppc \in {"put_wait", "put_parked"} /\ took_fast_path

BothFastPaths ==
    PendingFastWrite /\ FrontMovedOut

\* C33: while the producer is open the shared size is at most its cached size,
\* and while the consumer is open its cached size is at most the shared size;
\* so a get / try_get that has moved the front element out before the lock
\* finds size > 0 once it holds the lock.
C33_CacheBounds ==
    /\ ~in_closed => size <= in_old_size
    /\ ~out_closed => out_old_size <= size
    /\ (cpc \in {"get_wait", "tryget_lock"} /\ result # <<>>) => size > 0

\* the consumer has taken the fast path on a cache of 1 while the producer's
\* cache is stale
C33_Witness ==
    /\ cpc \in {"get_wait", "tryget_lock"}
    /\ result # <<>>
    /\ ~in_closed
    /\ ~out_closed
    /\ size < in_old_size
    /\ out_old_size > 0

\* the producer is parked although its wait predicate holds
ProducerWaitOver ==
    \/ ppc = "put_parked" /\ put_pred
    \/ ppc = "wte_parked" /\ wait_till_empty_pred

\* the consumer is parked although its wait predicate holds
ConsumerWaitOver ==
    cpc \in {"get_parked", "getall_parked"} /\ get_pred

\* the consumer has left its critical section and is about to call notify_one
ConsumerWillNotify ==
    \/ cpc \in {"getall_notify", "close_notify", "dtor_notify"}
    \/ cpc \in {"tryget_notify", "trygetall_notify"} /\ something_changed

\* the producer has left its critical section and is about to call notify_one
ProducerWillNotify ==
    ppc \in {"wte_notify", "close_notify", "dtor_notify"}

\* C34: with one producer and one consumer thread on the one condition
\* variable, the two are never parked at the same time (so notify_one always
\* reaches the one waiter there is); a thread parked while its wait predicate
\* holds has a notify_one of its peer still to come; and it does not stay so.
C34_NoLostWakeup ==
    /\ [](~(ppc \in Parked /\ cpc \in Parked))
    /\ [](ProducerWaitOver => ConsumerWillNotify)
    /\ [](ConsumerWaitOver => ProducerWillNotify)
    /\ (ProducerWaitOver \/ ConsumerWaitOver)
          ~> ~(ProducerWaitOver \/ ConsumerWaitOver)

\* the producer is parked in put on a ring get_all has just emptied; the
\* notify_one of get_all is still to come
C34_Witness ==
    /\ ppc = "put_parked"
    /\ size = 0
    /\ capacity > 1
    /\ out_alive
    /\ cpc = "getall_notify"

\* C35: a closed flag that is true stays true and an alive flag that is false
\* stays false; on a closed consumer get, try_get, get_all, try_get_all and
\* close return at once (nullopt: nothing is received) and change none of
\* size, read_pos, write_pos, storage and the flags; on a closed producer put
\* returns false and close returns, changing none of them either.
C35_ShutdownMonotone ==
    [][ /\ in_closed => in_closed'
        /\ out_closed => out_closed'
        /\ ~in_alive => ~in_alive'
        /\ ~out_alive => ~out_alive'
        /\ in_closed => (sent' = sent /\ (put_ret' => put_ret))
        /\ out_closed => received' = received
        /\ (out_closed /\ cpc = "idle" /\ ppc' = ppc)
             => /\ cpc' \in {"idle", "gone"}
                /\ UNCHANGED <<size, read_pos, write_pos, storage, in_alive,
                               out_alive, out_old_size, result>>
        /\ (in_closed /\ ppc = "idle" /\ cpc' = cpc /\ ppc' # "wte_wait")
             => /\ ppc' \in {"idle", "gone"}
                /\ UNCHANGED <<size, read_pos, write_pos, storage, in_alive,
                               out_alive, in_old_size>> ]_vars

\* both endpoints closed with values left in the ring, the last put refused
C35_Witness ==
    /\ in_closed
    /\ out_closed
    /\ ppc = "idle"
    /\ cpc = "idle"
    /\ size > 0
    /\ in_old_size = capacity
    /\ ~put_ret

\* C36: wait_till_empty called on a closed producer returns without waiting on
\* the condition variable: a closed producer is never parked in it (the
\* producer's closed flag is set by the producer only, so a closed producer
\* parked in wait_till_empty was closed when it made the call).
C36_ClosedWaitTillEmptyReturns ==
    in_closed => ppc # "wte_parked"

\* ---------------------------------------------------------------------------
\* the cursor and the extent of file_based_vector

\* C37: whenever the vector is not in error state the seek position of its
\* file is iter * sizeof(T)
C37_SeekPositionIsIter ==
    (~vec.error /\ fd_is_ok(vec.file)) => disk.pos = Mul(vec.iter, ElemSize)

\* C38: whenever the vector is not in error state and its file holds whole
\* elements, the file is capacity * sizeof(T) bytes long; and write_at
\* neither extends the file nor stores an element at an index >= used.
C38_WritesStayInsideUsed ==
    /\ (~vec.error /\ fd_is_ok(vec.file) /\ disk.len % ElemSize = 0) =>
           disk.len = Mul(vec.capacity, ElemSize)
    /\ (Ended("write_at") /\ before.d.len % ElemSize = 0) =>
           /\ disk.len = before.d.len
           /\ \A i \in 1..Len(disk.data) :
                  i > before.v.used => disk.data[i] = before.d.data[i]

\* ---------------------------------------------------------------------------
\* the error bit of a moved raii_fd

\* C39: a move construction or move assignment from a raii_fd that holds a
\* descriptor and has its error bit set (is_ok() is false after a short read
\* or write or a failed size_then_reset) leaves is_ok() false on the
\* destination
C39_MovePreservesError ==
    [][\A o \in Slots, move_from \in Slots :
         (/\ raii_move_construct(o, move_from) \/ raii_move_assign(o, move_from)
          /\ fds[move_from].fd >= 0
          /\ fds[move_from].error)
             => ~fd_is_ok(fds'[o])]_vars

\* ---------------------------------------------------------------------------
\* loading over a map that is not empty

\* the entries the rows of a parsed sidecar stand for
EntriesOf(found) ==
    {[key |-> record(found.value.unfinished[i].VolSessionId,
                     found.value.unfinished[i].VolSessionTime,
                     found.value.unfinished[i].FileIndex,
                     found.value.unfinished[i].Stream),
      loc |-> write_loc(found.value.unfinished[i].DataIdx,
                        found.value.unfinished[i].file_offset,
                        Add(found.value.unfinished[i].file_offset,
                            found.value.unfinished[i].size))] :
        i \in 1..Len(found.value.unfinished)}

\* C40: after load_config returned true unfinished_records holds exactly the
\* entries of the rows of the sidecar it read, whatever the map held before;
\* and load_config, all its system calls succeeding, returns true on every
\* sidecar of this binary's layout with no key twice, whatever the map held
\* before, so also when it is called again on the sidecar just loaded or
\* just written.
C40_LoadReplacesUnfinished ==
    VolEnded("load_config") =>
        LET found == from_bytes(volbefore.f.bytes)
        IN  /\ ~volret.null =>
                   volume.unfinished_records = EntriesOf(found)
            /\ (/\ volcall.io = "none"
                /\ ~found.null
                /\ ~BadLayout(found)
                /\ ~DuplicateKey(found)) => ~volret.null

====
